---- MODULE Spec2Model ----
(***************************************************************************)
(* A model of the g2py skills engine (src/skills_engine): the .g2/lock     *)
(* protocol, the backup / restore protocol, the applied-skill ledger, the  *)
(* apply and uninstall workflows and the resolution cache.                 *)
(***************************************************************************)
EXTENDS Integers, Sequences, FiniteSets, TLC

(***************************************************************************)
(* PART 1 -- the lock file protocol (lock.py), one step per system call.   *)
(***************************************************************************)

\* The two engine processes that race for .g2/lock.
Procs == {1, 2}
\* The pid recorded in a lock file that was on disk before either started.
ForeignPid == 0
\* lock.py: STALE_TIMEOUT_S = 5 * 60
STALE_TIMEOUT_S == 300
\* How often the clock may jump by more than the stale timeout.
MaxTicks == 1
\* How many mutating operations each process may start.
MaxCalls == 2

VARIABLES
    now,          \* time.time(), in seconds
    lockFile,     \* .g2/lock: [exists, creator, pid, ts]; pid = -1: no JSON in it
    foreignAlive, \* os.kill(ForeignPid, 0) succeeds
    pc,           \* per process: the system call it is about to make
    myTs,         \* per process: lock_info.timestamp taken at lock.py:54
    exitPath,     \* per process: how the locked operation ended
    calls,        \* per process: operations started so far
    actor         \* the process that took the last step (0: none / the clock)

lockVars == <<now, lockFile, foreignAlive, pc, myTs, exitPath, calls, actor>>

VARIABLES
    tree,     \* working tree: path -> content, NoFile where there is no file
    base,     \* .g2/base/: path -> content, NoFile where there is no copy
    backup,   \* .g2/backup/: [exists, files, tombs]
    ledger,   \* .g2/state.yaml: [applied_skills, core_version, rebased_at]
    pre,      \* tree, base and ledger when the last operation started
    last,     \* the last operation and its result
    hist      \* the operations run so far: <<[op, skill, success, backup_pending, bkPaths], ...>>

engineVars == <<tree, base, backup, ledger, pre, last, hist>>

VARIABLES
    job,      \* per process: the operation it runs and the ledger it read
    start     \* the project when the two processes started

concVars == <<job, start>>

VARIABLES
    rc,       \* the resolution cache entry and the live files load_resolutions sees
    rrCache,  \* <git-dir>/rr-cache: the paths whose resolution was written to it
    loaded    \* what load_resolutions returned: "true" / "false", "none" before the call

cacheVars == <<rc, rrCache, loaded>>

VARIABLES
    resolutions,   \* the entries of .g2/resolutions/, by their key
    customize,     \* .g2/custom/pending.yaml exists
    pending,       \* file_hashes of pending.yaml, while it exists
    patches        \* the patch files under .g2/custom/, by sequence number

coreVars == <<resolutions, customize, pending, patches>>

VARIABLES
    inodes,      \* the files' contents by inode: a sequence of blocks
    stateYaml,   \* the inode .g2/state.yaml names
    tmpYaml,     \* the inode .g2/state.yaml.tmp names, NoInode when there is no such file
    fd,          \* per writer: the inode its open file is
    wpc,         \* per writer: where it is in write_state
    wcalls,      \* per writer: write_state calls started so far
    installed,   \* per writer: the content of state.yaml right after its last rename
    seen         \* what the last read_state got from state.yaml

fileVars == <<inodes, stateYaml, tmpYaml, fd, wpc, wcalls, installed, seen>>

VARIABLES
    apc,        \* the step the running apply_skill is about to take, "idle" when none runs
    askill,     \* the skill it applies
    aenv,       \* how its post_apply and test commands will exit
    started,    \* the steps it has started, in order
    finished,   \* how many of them have finished successfully
    replayed    \* the last replay_skills call: its skills, per_skill and what it collected

stepVars == <<apc, askill, aenv, started, finished, replayed>>

VARIABLES
    fin,      \* the arguments a function of the engine is called with
    fout      \* what the calls made of them, in the order of the calls

pureVars == <<fin, fout>>

VARIABLES
    groups,          \* GroupQueue._groups: jid -> GroupState
    active_count,    \* GroupQueue._active_count
    waiting_groups,  \* GroupQueue._waiting_groups
    created,         \* the coroutines asyncio.create_task was given and that have not begun, oldest first
    running,         \* jid -> the message runs and task runs that have begun and not finished
    timers,          \* jid -> the retry_later coroutines asleep for it
    enqueued,        \* the enqueue calls made from outside the queue
    failures,        \* the message runs that have failed
    overlapped       \* an enqueue call was made while a created coroutine had not begun

queueVars == <<groups, active_count, waiting_groups, created, running, timers, enqueued, failures,
               overlapped>>

vars == <<lockVars, engineVars, concVars, cacheVars, coreVars, fileVars, stepVars, pureVars, queueVars>>

NoLock == [exists |-> FALSE, creator |-> -1, pid |-> -1, ts |-> -1]
EmptyLock(p) == [exists |-> TRUE, creator |-> p, pid |-> -1, ts |-> -1]
WrittenLock(p, t) == [exists |-> TRUE, creator |-> p, pid |-> p, ts |-> t]

\* json.loads(...) + LockInfo.from_dict succeed on the file's content.
Parses(f) == f.exists /\ f.pid # -1

_is_stale(f) == now - f.ts > STALE_TIMEOUT_S

_is_process_alive(pid) == IF pid = ForeignPid THEN foreignAlive ELSE pid \in Procs

\* The exits of the four mutating operations once the lock is held.
\* apply and rebase re-raise; uninstall and update turn the exception
\* into a failed result.
ExitPaths(kind) ==
    CASE kind = "apply"     -> {"success", "conflict_pending", "rolled_back", "raised"}
      [] kind = "rebase"    -> {"success", "conflict_pending", "raised"}
      [] kind = "update"    -> {"success", "conflict_pending", "rolled_back"}
      [] kind = "uninstall" -> {"success", "rolled_back"}

OpKinds == {"apply", "uninstall", "update", "rebase"}

\* A body without the finally clause: an exception skips the release.
ReleasesLockNoFinally(kind, exit) == exit # "raised"

\* try: ... finally: release_lock() around the whole body of each operation.
ReleasesLock(kind, exit) == TRUE

Goto(p, label) == pc' = [pc EXCEPT ![p] = label]

\* lock.py:51-54: lock_info = LockInfo(pid=os.getpid(), timestamp=time.time())
AcquireStart(p) ==
    /\ pc[p] = "idle"
    /\ calls[p] < MaxCalls
    /\ calls' = [calls EXCEPT ![p] = @ + 1]
    /\ myTs' = [myTs EXCEPT ![p] = now]
    /\ exitPath' = [exitPath EXCEPT ![p] = "none"]
    /\ Goto(p, "create1")
    /\ actor' = p
    /\ UNCHANGED <<engineVars, concVars, cacheVars, fileVars, stepVars, coreVars, pureVars, queueVars>>
    /\ UNCHANGED <<now, lockFile, foreignAlive>>

\* lock.py:58: os.open(O_WRONLY | O_CREAT | O_EXCL); FileExistsError -> line 64
CreateExclusive(p) ==
    /\ pc[p] = "create1"
    /\ IF lockFile.exists
          THEN Goto(p, "read") /\ UNCHANGED lockFile
          ELSE Goto(p, "write1") /\ lockFile' = EmptyLock(p)
    /\ actor' = p
    /\ UNCHANGED <<engineVars, concVars, cacheVars, fileVars, stepVars, coreVars, pureVars, queueVars>>
    /\ UNCHANGED <<now, foreignAlive, myTs, exitPath, calls>>

\* lock.py:60 and 87: os.write(fd, ...) goes to the inode p created, which is
\* the lock file only while nobody has unlinked it.
WriteLockInfo(p) ==
    /\ pc[p] \in {"write1", "write2"}
    /\ IF lockFile.exists /\ lockFile.creator = p /\ lockFile.pid = -1
          THEN lockFile' = WrittenLock(p, myTs[p])
          ELSE UNCHANGED lockFile
    /\ Goto(p, "locked")
    /\ actor' = p
    /\ UNCHANGED <<engineVars, concVars, cacheVars, fileVars, stepVars, coreVars, pureVars, queueVars>>
    /\ UNCHANGED <<now, foreignAlive, myTs, exitPath, calls>>

\* lock.py:66-79: read the existing file; a live, fresh holder raises the
\* contention error, everything else (stale, dead, unreadable) falls through.
ReadExisting(p) ==
    /\ pc[p] = "read"
    /\ IF Parses(lockFile) /\ ~_is_stale(lockFile) /\ _is_process_alive(lockFile.pid)
          THEN Goto(p, "failed")
          ELSE Goto(p, "unlink")
    /\ actor' = p
    /\ UNCHANGED <<engineVars, concVars, cacheVars, fileVars, stepVars, coreVars, pureVars, queueVars>>
    /\ UNCHANGED <<now, lockFile, foreignAlive, myTs, exitPath, calls>>

\* lock.py:81-82: with suppress(FileNotFoundError): lock_path.unlink()
UnlinkStale(p) ==
    /\ pc[p] = "unlink"
    /\ lockFile' = NoLock
    /\ Goto(p, "create2")
    /\ actor' = p
    /\ UNCHANGED <<engineVars, concVars, cacheVars, fileVars, stepVars, coreVars, pureVars, queueVars>>
    /\ UNCHANGED <<now, foreignAlive, myTs, exitPath, calls>>

\* lock.py:84-91: the second exclusive create; FileExistsError -> RuntimeError
CreateAgain(p) ==
    /\ pc[p] = "create2"
    /\ IF lockFile.exists
          THEN Goto(p, "failed") /\ UNCHANGED lockFile
          ELSE Goto(p, "write2") /\ lockFile' = EmptyLock(p)
    /\ actor' = p
    /\ UNCHANGED <<engineVars, concVars, cacheVars, fileVars, stepVars, coreVars, pureVars, queueVars>>
    /\ UNCHANGED <<now, foreignAlive, myTs, exitPath, calls>>

\* The locked body of apply / uninstall / update / rebase, ending on one of
\* its exit paths.
LockedBody(p) ==
    /\ pc[p] = "locked"
    /\ \E kind \in OpKinds : \E exit \in ExitPaths(kind) :
          /\ exitPath' = [exitPath EXCEPT ![p] = exit]
          /\ IF ReleasesLock(kind, exit)
                THEN Goto(p, "rel_exists")
                ELSE Goto(p, "done")
    /\ actor' = p
    /\ UNCHANGED <<engineVars, concVars, cacheVars, fileVars, stepVars, coreVars, pureVars, queueVars>>
    /\ UNCHANGED <<now, lockFile, foreignAlive, myTs, calls>>

\* lock.py:99: if lock_path.exists()
ReleaseExists(p) ==
    /\ pc[p] = "rel_exists"
    /\ IF lockFile.exists THEN Goto(p, "rel_read") ELSE Goto(p, "done")
    /\ actor' = p
    /\ UNCHANGED <<engineVars, concVars, cacheVars, fileVars, stepVars, coreVars, pureVars, queueVars>>
    /\ UNCHANGED <<now, lockFile, foreignAlive, myTs, exitPath, calls>>

\* lock.py:100-103: read the file and compare its pid with os.getpid()
ReleaseRead(p) ==
    /\ pc[p] = "rel_read"
    /\ IF ~Parses(lockFile)
          THEN Goto(p, "rel_unlink")
          ELSE IF lockFile.pid = p THEN Goto(p, "rel_unlink") ELSE Goto(p, "done")
    /\ actor' = p
    /\ UNCHANGED <<engineVars, concVars, cacheVars, fileVars, stepVars, coreVars, pureVars, queueVars>>
    /\ UNCHANGED <<now, lockFile, foreignAlive, myTs, exitPath, calls>>

\* lock.py:104 and 107-108: lock_path.unlink(), a missing file is ignored
ReleaseUnlink(p) ==
    /\ pc[p] = "rel_unlink"
    /\ lockFile' = NoLock
    /\ Goto(p, "done")
    /\ actor' = p
    /\ UNCHANGED <<engineVars, concVars, cacheVars, fileVars, stepVars, coreVars, pureVars, queueVars>>
    /\ UNCHANGED <<now, foreignAlive, myTs, exitPath, calls>>

\* The call returned (or raised); the process is free to start another one.
NextCall(p) ==
    /\ pc[p] \in {"done", "failed"}
    /\ calls[p] < MaxCalls
    /\ Goto(p, "idle")
    /\ actor' = p
    /\ UNCHANGED <<engineVars, concVars, cacheVars, fileVars, stepVars, coreVars, pureVars, queueVars>>
    /\ UNCHANGED <<now, lockFile, foreignAlive, myTs, exitPath, calls>>

\* More than STALE_TIMEOUT_S seconds pass.
Tick ==
    /\ now < (MaxTicks + 1) * (STALE_TIMEOUT_S + 1)
    /\ now' = now + STALE_TIMEOUT_S + 1
    /\ actor' = 0
    /\ UNCHANGED <<engineVars, concVars, cacheVars, fileVars, stepVars, coreVars, pureVars, queueVars>>
    /\ UNCHANGED <<lockFile, foreignAlive, pc, myTs, exitPath, calls>>

LockNext ==
    \/ Tick
    \/ \E p \in Procs :
          \/ AcquireStart(p)
          \/ CreateExclusive(p)
          \/ WriteLockInfo(p)
          \/ ReadExisting(p)
          \/ UnlinkStale(p)
          \/ CreateAgain(p)
          \/ LockedBody(p)
          \/ ReleaseExists(p)
          \/ ReleaseRead(p)
          \/ ReleaseUnlink(p)
          \/ NextCall(p)

(***************************************************************************)
(* PART 2 -- the working tree, the base snapshot, the backup directory and *)
(* the ledger, with apply / uninstall as whole operations of one process.  *)
(***************************************************************************)

\* How many operations one behaviour of the engine runs.
MaxOps == 3

ConfigTs == "src/config.ts"
TelegramTs == "src/telegram.ts"
DiscordTs == "src/discord.ts"
OldTs == "src/old.ts"
NewTs == "src/new.ts"
EnvExample == ".env.example"
PackageJson == "package.json"
PackageLock == "package-lock.json"
DockerCompose == "docker-compose.yml"
\* A manifest path that leaves the project root.
EscapingPath == "../outside.ts"

Paths == {ConfigTs, TelegramTs, DiscordTs, OldTs, NewTs,
          EnvExample, PackageJson, PackageLock, DockerCompose}

\* A file's bytes: a source file is the tuple of its two hunks (0: the core's
\* text, n > 0: text written by skill n), .env.example the tuple of its lines.
NoFile == << -1 >>
Regions == 1..2
\* The <<<<<<< ======= >>>>>>> block git merge-file leaves in a hunk.
ConflictMark == 9
\* The "# Added by skill" line of .env.example.
EnvHeader == 0

Exists(fs, p) == fs[p] # NoFile

\* compute_file_hash: SHA-256 of the bytes, equal exactly for equal bytes.
compute_file_hash(content) == [sha256 |-> content]

Skills == {"telegram", "discord", "slack", "mover", "badadd", "badfrom"}

Rename(f, t) == [type |-> "rename", from |-> f, to |-> t, path |-> ""]
Delete(p) == [type |-> "delete", from |-> "", to |-> "", path |-> p]

\* manifest.yaml of a package that declares nothing.
EmptyManifest(s) ==
    [skill |-> s, adds |-> <<>>, modifies |-> <<>>, file_ops |-> <<>>,
     env_additions |-> <<>>, post_apply |-> FALSE, test |-> FALSE,
     depends |-> {}, conflicts |-> {},
     min_skills_system_version |-> 0, docker_compose_services |-> {}]

\* The services of docker-compose.yml: the one a skill declares and the
\* one a newer core ships; both publish the same host port.
RedisService == 1
CacheService == 2
Services == {RedisService, CacheService}
HostPort(svc) == 6379

\* constants.py:15 SKILLS_SCHEMA_VERSION "0.1.0", as a number.
SKILLS_SCHEMA_VERSION == 1

\* The skills that updates and rebases are run with: voice depends on
\* telegram and modifies the file telegram adds, whatsapp conflicts with
\* telegram, future needs a newer engine, redis declares a compose service.
\* notify, used in replays, names an env variable telegram names too and
\* declares the service redis declares.
\* cleaner, applied block by block, deletes src/old.ts and runs a command.
CoreSkills == {"telegram", "discord", "slack", "voice", "whatsapp", "future", "redis"}

\* The skill packages under .claude/skills/ (manifest.yaml of each).
Manifest(s) ==
    CASE s = "telegram" ->
           [EmptyManifest(s) EXCEPT !.adds = <<TelegramTs>>, !.modifies = <<ConfigTs>>,
                                    !.env_additions = <<1>>, !.post_apply = TRUE,
                                    !.test = TRUE]
      [] s = "discord" ->
           [EmptyManifest(s) EXCEPT !.adds = <<DiscordTs>>, !.modifies = <<ConfigTs>>,
                                    !.env_additions = <<2>>]
      [] s = "slack" ->
           [EmptyManifest(s) EXCEPT !.modifies = <<ConfigTs>>,
                                    !.file_ops = <<Rename(OldTs, NewTs)>>,
                                    !.post_apply = TRUE]
      [] s = "mover" ->
           [EmptyManifest(s) EXCEPT
               !.file_ops = <<Rename(OldTs, NewTs), Delete(EscapingPath)>>]
      [] s = "cleaner" ->
           [EmptyManifest(s) EXCEPT !.file_ops = <<Delete(OldTs)>>, !.post_apply = TRUE]
      [] s = "badadd" ->
           [EmptyManifest(s) EXCEPT !.adds = <<EscapingPath>>,
                                    !.file_ops = <<Rename(OldTs, NewTs)>>]
      [] s = "badfrom" ->
           [EmptyManifest(s) EXCEPT !.modifies = <<ConfigTs>>,
                                    !.file_ops = <<Rename(EscapingPath, NewTs)>>]
      [] s = "voice" ->
           [EmptyManifest(s) EXCEPT !.modifies = <<TelegramTs>>,
                                    !.depends = {"telegram"}]
      [] s = "whatsapp" ->
           [EmptyManifest(s) EXCEPT !.modifies = <<ConfigTs>>,
                                    !.conflicts = {"telegram"}]
      [] s = "future" ->
           [EmptyManifest(s) EXCEPT !.modifies = <<ConfigTs>>,
                                    !.min_skills_system_version = 2]
      [] s = "redis" ->
           [EmptyManifest(s) EXCEPT !.docker_compose_services = {RedisService}]
      [] s = "notify" ->
           [EmptyManifest(s) EXCEPT !.env_additions = <<1, 3>>,
                                    !.docker_compose_services = {RedisService}]

\* <skill>/add/<path>
AddFile(s, p) ==
    CASE s = "telegram" -> <<1, 1>>
      [] s = "discord"  -> <<2, 2>>
      [] OTHER          -> <<0, 0>>

\* <skill>/modify/<path>: telegram and slack rewrite the first hunk of
\* src/config.ts, discord the second, badfrom none.
ModifyFile(s, p) ==
    CASE s = "telegram" -> <<1, 0>>
      [] s = "discord"  -> <<0, 2>>
      [] s = "slack"    -> <<3, 0>>
      [] s = "voice"    -> <<1, 4>>
      [] s = "whatsapp" -> <<5, 0>>
      [] s = "future"   -> <<6, 0>>
      [] OTHER          -> <<0, 0>>

Range(seq) == {seq[i] : i \in DOMAIN seq}

\* manifest.py:31-34: ".." in p or PurePosixPath(p).is_absolute()
InvalidManifestPath(p) == p = EscapingPath

\* manifest.py read_manifest: only adds and modifies are validated.
read_manifest_raises(m) ==
    \E p \in Range(m.adds) \cup Range(m.modifies) : InvalidManifestPath(p)

\* file_ops.py _safe_path returns None; backup.py relative_to raises.
EscapesRoot(p) == p = EscapingPath

\* Every path a manifest names: adds, modifies, and from / to / path of
\* its file_ops.
ManifestPaths(m) ==
    (Range(m.adds) \cup Range(m.modifies)
       \cup UNION {{m.file_ops[i].from, m.file_ops[i].to, m.file_ops[i].path} :
                     i \in DOMAIN m.file_ops}) \ {""}

\* git merge-file current base other, hunk by hunk: a hunk only one side
\* changed takes that side, a hunk both changed differently is a conflict.
HunkConflicts(b, ours, theirs) == ours # b /\ theirs # b /\ theirs # ours

MergeHunk(b, ours, theirs) ==
    IF HunkConflicts(b, ours, theirs) THEN ConflictMark
    ELSE IF ours = b THEN theirs
    ELSE ours

\* merge.py merge_file (git merge-file): a side equal to the base takes
\* the other side whole; two-hunk files merge hunk by hunk; any other text
\* changed on both sides conflicts.
merge_file(current, b, other) ==
    IF current = b THEN [content |-> other, clean |-> TRUE]
    ELSE IF other = b \/ other = current THEN [content |-> current, clean |-> TRUE]
    ELSE IF Len(current) = 2 /\ Len(b) = 2 /\ Len(other) = 2
       THEN [content |-> [r \in Regions |-> MergeHunk(b[r], current[r], other[r])],
             clean |-> \A r \in Regions : ~HunkConflicts(b[r], current[r], other[r])]
    ELSE [content |-> <<ConflictMark>>, clean |-> FALSE]

\* .g2/backup/: the copies and tombstones of working-tree paths, the
\* copies of .g2/base/<p> (rebase.py:91-93) and of .g2/state.yaml
\* (rebase.py:94-95; <<>> when it holds none).
EmptyBackup ==
    [exists |-> FALSE, files |-> [p \in Paths |-> NoFile], tombs |-> {},
     base |-> [p \in Paths |-> NoFile], state |-> <<>>]

\* backup.py create_backup: a copy of each existing file, a tombstone for
\* each missing one; entries already in .g2/backup/ stay (mkdir exist_ok).
\* A path outside the project root raises at relative_to, and the paths
\* before it in the list are already backed up.
create_backup(bk, fs, paths) ==
    LET bad == {i \in DOMAIN paths : EscapesRoot(paths[i])}
        n == IF bad = {} THEN Len(paths)
             ELSE (CHOOSE i \in bad : \A j \in bad : i <= j) - 1
        done == {paths[i] : i \in 1..n}
    IN [bk |-> [exists |-> TRUE,
                files |-> [p \in Paths |->
                             IF p \in done /\ Exists(fs, p) THEN fs[p] ELSE bk.files[p]],
                tombs |-> bk.tombs \cup {p \in done : ~Exists(fs, p)},
                base |-> bk.base,
                state |-> bk.state],
        listed |-> done,
        raised |-> bad # {}]

\* The paths of .g2/backup/ that hold both a copy and a tombstone.
BothInBackup(bk) == {p \in bk.tombs : bk.files[p] # NoFile}

\* backup.py restore_backup: every copy is copied back and every tombstone
\* deletes its file, in directory order (iterdir): where a path has both,
\* "tombLast" are the paths whose tombstone is visited after the copy.
restore_backup(fs, bk, tombLast) ==
    IF ~bk.exists THEN fs
    ELSE [p \in Paths |->
            IF p \in bk.tombs /\ bk.files[p] # NoFile
               THEN (IF p \in tombLast THEN NoFile ELSE bk.files[p])
            ELSE IF p \in bk.tombs THEN NoFile
            ELSE IF bk.files[p] # NoFile THEN bk.files[p]
            ELSE fs[p]]

\* backup.py restore_backup, for the copies of .g2/base/<p> in the backup.
restore_base(bs, bk) ==
    [p \in Paths |-> IF bk.base[p] # NoFile THEN bk.base[p] ELSE bs[p]]

\* backup.py restore_backup, for the copy of .g2/state.yaml in the backup.
restore_state(l, bk) == IF bk.state # <<>> THEN bk.state[1] ELSE l

\* file_ops.py execute_file_ops: stops at the first failing operation and
\* leaves the operations before it done.
RECURSIVE execute_file_ops(_, _)
execute_file_ops(ops, fs) ==
    IF ops = <<>> THEN [tree |-> fs, success |-> TRUE]
    ELSE LET op == Head(ops) IN
         IF op.type = "rename"
            THEN IF EscapesRoot(op.from) \/ EscapesRoot(op.to)
                    THEN [tree |-> fs, success |-> FALSE]
                 ELSE IF ~Exists(fs, op.from) \/ Exists(fs, op.to)
                    THEN [tree |-> fs, success |-> FALSE]
                 ELSE execute_file_ops(Tail(ops),
                         [fs EXCEPT ![op.to] = fs[op.from], ![op.from] = NoFile])
            ELSE IF EscapesRoot(op.path)
                    THEN [tree |-> fs, success |-> FALSE]
                 ELSE execute_file_ops(Tail(ops), [fs EXCEPT ![op.path] = NoFile])

\* apply.py:150-162 / replay.py:151-160: copy <skill>/add/* into the project.
RECURSIVE CopyAdds(_, _, _)
CopyAdds(s, adds, fs) ==
    IF adds = <<>> THEN fs
    ELSE CopyAdds(s, Tail(adds), [fs EXCEPT ![Head(adds)] = AddFile(s, Head(adds))])

\* apply.py:171-247 / replay.py:165-227: the three-way merge of each modified
\* file, in order; git's rr-cache holds no resolution, so a conflict stays.
RECURSIVE MergeModifies(_, _, _, _, _)
MergeModifies(s, mods, fs, bs, conflicts) ==
    IF mods = <<>> THEN [tree |-> fs, base |-> bs, conflicts |-> conflicts]
    ELSE LET p == Head(mods) IN
         IF ~Exists(fs, p)
            THEN MergeModifies(s, Tail(mods), [fs EXCEPT ![p] = ModifyFile(s, p)], bs, conflicts)
         ELSE LET bs2 == IF Exists(bs, p) THEN bs ELSE [bs EXCEPT ![p] = fs[p]]
                  m == merge_file(fs[p], bs2[p], ModifyFile(s, p))
              IN MergeModifies(s, Tail(mods), [fs EXCEPT ![p] = m.content], bs2,
                               IF m.clean THEN conflicts ELSE Append(conflicts, p))

\* structured.py merge_env_additions: names already declared are skipped,
\* the others are appended under one "# Added by skill" line.
merge_env_additions(content, additions) ==
    LET text == IF content = NoFile THEN <<>> ELSE content
        existing_vars == Range(text) \ {EnvHeader}
        new_vars == SelectSeq(additions, LAMBDA v : v \notin existing_vars)
    IN IF new_vars = <<>> THEN content ELSE text \o <<EnvHeader>> \o new_vars

\* docker-compose.yml is <<services, rest>>: its services mapping as the
\* sum of the services in it, and the rest of the file.
ServicesOf(h) == {k \in Services : (h \div k) % 2 = 1}
ServicesHunk(S) == (IF RedisService \in S THEN RedisService ELSE 0)
                     + (IF CacheService \in S THEN CacheService ELSE 0)

\* structured.py merge_docker_compose_services: services already there
\* are skipped; a new one whose host port is in use raises before the file
\* is written; a file that does not parse raises as well.
merge_docker_compose_services(content, services) ==
    IF content # NoFile /\ content[1] = ConflictMark
       THEN [content |-> content, raised |-> TRUE]
    ELSE
    LET existing_services == IF content = NoFile THEN {} ELSE ServicesOf(content[1])
        new == services \ existing_services
        collision == \E a \in new : \E b \in (existing_services \cup new) \ {a} :
                        HostPort(a) = HostPort(b)
    IN IF collision THEN [content |-> content, raised |-> TRUE]
       ELSE [content |-> <<ServicesHunk(existing_services \cup new),
                           IF content = NoFile THEN 0 ELSE content[2]>>,
             raised |-> FALSE]

\* check_system_version without the comparison against the engine version.
check_system_version_any(m) == m.min_skills_system_version >= 0

\* manifest.py check_system_version
check_system_version(m) == m.min_skills_system_version <= SKILLS_SCHEMA_VERSION

\* record_skill_application appending without dropping the previous record.
record_skill_application_appending(l, s, hashes, outcomes) ==
    [l EXCEPT !.applied_skills =
        Append(@, [name |-> s, file_hashes |-> hashes, structured_outcomes |-> outcomes,
                   custom_patch |-> FALSE])]

\* state.py record_skill_application: drop the skill's previous record and
\* append the new one (custom_patch: the record names a custom patch, which
\* a new record never does).
record_skill_application(l, s, hashes, outcomes) ==
    [l EXCEPT !.applied_skills =
        Append(SelectSeq(@, LAMBDA r : r.name # s),
               [name |-> s, file_hashes |-> hashes, structured_outcomes |-> outcomes,
                custom_patch |-> FALSE])]

AppliedNames(l) == {l.applied_skills[i].name : i \in DOMAIN l.applied_skills}

Unlink(fs, ps) == [p \in Paths |-> IF p \in ps THEN NoFile ELSE fs[p]]

\* apply.py:122-134: what apply hands to create_backup.
ApplyBackupPaths(m) ==
    m.modifies \o m.adds
      \o SelectSeq([i \in DOMAIN m.file_ops |-> m.file_ops[i].from], LAMBDA f : f # "")
      \o <<PackageJson, PackageLock, EnvExample, DockerCompose>>

\* The project on disk: the working tree, .g2/base, .g2/backup, .g2/state.yaml.
\* "custom": .g2/custom/pending.yaml exists (customize.py is_customize_active).
Disk(t, b, bk, l) ==
    [tree |-> t, base |-> b, backup |-> bk, ledger |-> l, custom |-> FALSE]

\* What an operation leaves on disk and what it returns (res.raised: it
\* ended by raising an exception instead).
Outcome(t, b, bk, l, res) == [tree |-> t, base |-> b, backup |-> bk, ledger |-> l, res |-> res]

\* The result an operation returns, with what the claims need of its run:
\* the paths it handed to create_backup and whether it reached acquire_lock().
Res(op, s, success, backup_pending, raised, error, bkPaths, locked) ==
    [op |-> op, skill |-> s, success |-> success, backup_pending |-> backup_pending,
     raised |-> raised, error |-> error, bkPaths |-> bkPaths, locked |-> locked]

MutatingOps == {"apply", "uninstall"}

\* apply.py apply_skill on the project d. postOk / testOk: whether the
\* post_apply commands and the test command exit 0; tombLast: the directory
\* order restore_backup meets.
apply_skill(d, s, postOk, testOk, tombLast) ==
    LET m == Manifest(s)
        refuse(raised, err) ==
            Outcome(d.tree, d.base, d.backup, d.ledger,
                    Res("apply", s, FALSE, FALSE, raised, err, {}, FALSE))
    IN
    IF read_manifest_raises(m) THEN refuse(TRUE, "invalid-path")
    ELSE IF ~check_system_version(m) THEN refuse(FALSE, "system-version")
    ELSE IF d.custom THEN refuse(FALSE, "customize-active")
    ELSE IF ~(m.depends \subseteq AppliedNames(d.ledger)) THEN refuse(FALSE, "missing-dependency")
    ELSE IF m.conflicts \cap AppliedNames(d.ledger) # {} THEN refuse(FALSE, "conflicting-skill")
    ELSE
    LET want == ApplyBackupPaths(m)
        b1 == create_backup(d.backup, d.tree, want)
        listed == b1.listed
        rollback(fs, bs, added, l, undo, raised, err) ==
            LET lr == restore_state(l, b1.bk) IN
            Outcome(restore_backup(Unlink(fs, added), b1.bk, tombLast),
                    restore_base(bs, b1.bk), EmptyBackup,
                    IF undo THEN [lr EXCEPT !.applied_skills = SelectSeq(@, LAMBDA r : r.name # s)]
                    ELSE lr,
                    Res("apply", s, FALSE, FALSE, raised, err, listed, TRUE))
    IN
    IF b1.raised THEN rollback(d.tree, d.base, {}, d.ledger, FALSE, TRUE, "path-escape")
    ELSE
    LET ops == execute_file_ops(m.file_ops, d.tree) IN
    IF ~ops.success THEN rollback(ops.tree, d.base, {}, d.ledger, FALSE, FALSE, "file-ops")
    ELSE
    LET added == {p \in Range(m.adds) : ~Exists(ops.tree, p)}
        t2 == CopyAdds(s, m.adds, ops.tree)
        mg == MergeModifies(s, m.modifies, t2, d.base, <<>>)
    IN
    IF mg.conflicts # <<>>
       THEN Outcome(mg.tree, mg.base, b1.bk, d.ledger,
                    Res("apply", s, FALSE, TRUE, FALSE, "merge-conflict", listed, TRUE))
    ELSE
    LET t3 == IF m.env_additions # <<>>
                 THEN [mg.tree EXCEPT ![EnvExample] = merge_env_additions(@, m.env_additions)]
                 ELSE mg.tree
        dk == merge_docker_compose_services(t3[DockerCompose], m.docker_compose_services)
    IN
    IF m.docker_compose_services # {} /\ dk.raised
       THEN rollback(t3, mg.base, added, d.ledger, FALSE, TRUE, "port-collision")
    ELSE
    LET t4 == IF m.docker_compose_services # {}
                 THEN [t3 EXCEPT ![DockerCompose] = dk.content]
                 ELSE t3
    IN
    IF m.post_apply /\ ~postOk
       THEN rollback(t4, mg.base, added, d.ledger, FALSE, FALSE, "post-apply")
    ELSE
    LET recorded == {p \in Range(m.adds \o m.modifies) : Exists(t4, p)}
        hashes == [p \in recorded |-> compute_file_hash(t4[p])]
        l2 == record_skill_application(d.ledger, s, hashes,
                 [test |-> m.test, env_additions |-> m.env_additions,
                  docker_compose_services |-> m.docker_compose_services])
    IN
    IF m.test /\ ~testOk
       THEN rollback(t4, mg.base, added, l2, TRUE, FALSE, "test")
    ELSE Outcome(t4, mg.base, EmptyBackup, l2,
                 Res("apply", s, TRUE, FALSE, FALSE, "", listed, TRUE))

\* replay.py:107-118, uninstall.py:107-119: back to the base copy, or gone
\* when the base has none.
ResetToBase(fs, bs, ps) ==
    [p \in Paths |-> IF p \in ps THEN bs[p] ELSE fs[p]]

\* dict.update: the entries of e over those of d.
dict_update(d, e) == [k \in DOMAIN d \cup DOMAIN e |-> IF k \in DOMAIN e THEN e[k] ELSE d[k]]

EmptyDict == [k \in {} |-> 0]

\* structured.npm_dependencies of the skill's manifest: package -> version.
NpmDeps(s) ==
    CASE s = "telegram" -> [k \in {"grammy"} |-> 1]
      [] s = "notify"   -> [k \in {"grammy", "zod"} |-> 2]
      [] OTHER          -> EmptyDict

\* structured.docker_compose_services of the skill's manifest: service ->
\* its definition.
ServiceDefs(s) ==
    [svc \in Manifest(s).docker_compose_services |-> IF s = "redis" THEN 1 ELSE 2]

\* replay.py:126-130: nothing collected yet.
NoStructured == [env |-> <<>>, npm |-> EmptyDict, services |-> EmptyDict, per_skill |-> <<>>]

\* replay.py:132-257: the skills one after the other; the first failing
\* file operation or conflicting merge ends the replay.  acc: per_skill and
\* the structured operations collected so far (replay.py:238-245).
RECURSIVE ReplayEach(_, _, _, _)
ReplayEach(skills, fs, bs, acc) ==
    LET result(t, b, ok, ps) ==
            [tree |-> t, base |-> b, success |-> ok, env |-> acc.env, npm |-> acc.npm,
             services |-> acc.services, per_skill |-> ps]
    IN
    IF skills = <<>> THEN result(fs, bs, TRUE, acc.per_skill)
    ELSE LET s == Head(skills)
             m == Manifest(s)
             ops == execute_file_ops(m.file_ops, fs)
             failed == Append(acc.per_skill, [name |-> s, success |-> FALSE])
         IN IF ~ops.success THEN result(ops.tree, bs, FALSE, failed)
            ELSE LET mg == MergeModifies(s, m.modifies, CopyAdds(s, m.adds, ops.tree), bs, <<>>)
                 IN IF mg.conflicts # <<>> THEN result(mg.tree, mg.base, FALSE, failed)
                    ELSE ReplayEach(Tail(skills), mg.tree, mg.base,
                            [env |-> acc.env \o m.env_additions,
                             npm |-> dict_update(acc.npm, NpmDeps(s)),
                             services |-> dict_update(acc.services, ServiceDefs(s)),
                             per_skill |-> Append(acc.per_skill,
                                                  [name |-> s, success |-> TRUE])])

\* replay.py:267-270: the collected env additions, applied once.
replay_env(r) ==
    IF r.env = <<>> THEN r
    ELSE [r EXCEPT !.tree[EnvExample] = merge_env_additions(@, r.env)]

\* replay.py:272-274: the collected compose services, applied once; dk is
\* what merge_docker_compose_services makes of the file.
replay_docker(r, services, dk) ==
    IF services = {} THEN r
    ELSE IF dk.raised THEN [r EXCEPT !.success = FALSE]
    ELSE [r EXCEPT !.tree[DockerCompose] = dk.content]

\* replay_structured applying the collected operations after a stopped
\* replay too.
replay_structured_always(r, services) ==
    replay_docker(replay_env(r), services,
                  merge_docker_compose_services(replay_env(r).tree[DockerCompose], services))

\* replay.py:266-282: the structured operations, only after a replay
\* without conflicts.
replay_structured(r, services) ==
    IF ~r.success THEN r
    ELSE replay_docker(replay_env(r), services,
                       merge_docker_compose_services(replay_env(r).tree[DockerCompose],
                                                     services))

\* replay.py replay_skills: reset what the skills' manifests add or modify,
\* replay them, then apply their collected structured additions once.
replay_skills(skills, fs, bs) ==
    replay_structured(
        ReplayEach(skills,
                   ResetToBase(fs, bs,
                       UNION {Range(Manifest(skills[i]).adds)
                                \cup Range(Manifest(skills[i]).modifies) : i \in DOMAIN skills}),
                   bs, NoStructured),
        UNION {Manifest(skills[i]).docker_compose_services : i \in DOMAIN skills})

\* A set as a sequence, in the order the code iterates it.
RECURSIVE SetToSeq(_)
SetToSeq(S) ==
    IF S = {} THEN <<>>
    ELSE LET x == CHOOSE x \in S : TRUE IN <<x>> \o SetToSeq(S \ {x})

\* The files the ledger's custom modifications name (uninstall.py:66-69,
\* rebase.py:50-53).
CustomFiles(state) ==
    UNION {state.custom_modifications[i].files_modified :
             i \in DOMAIN state.custom_modifications}

\* uninstall.py:188-197: the records without the removed skill, their
\* file_hashes recomputed from the working tree.
RefreshedRecords(records, fs) ==
    [i \in DOMAIN records |->
        [records[i] EXCEPT !.file_hashes =
            [p \in {q \in DOMAIN records[i].file_hashes : Exists(fs, q)} |->
                compute_file_hash(fs[p])]]]

\* uninstall.py uninstall_skill on the project d, "state" being the ledger
\* it read at line 22.
uninstall_skill(d, state, s, testOk, tombLast) ==
    LET refuse(err) == Outcome(d.tree, d.base, d.backup, d.ledger,
                               Res("uninstall", s, FALSE, FALSE, FALSE, err, {}, FALSE))
    IN
    IF state.rebased_at THEN refuse("after-rebase")
    ELSE IF s \notin AppliedNames(state) THEN refuse("not-applied")
    ELSE IF \E r \in Range(state.applied_skills) : r.name = s /\ r.custom_patch
       THEN refuse("custom-patch")
    ELSE
    LET records == state.applied_skills
        all_touched_files ==
            UNION {DOMAIN records[i].file_hashes : i \in DOMAIN records}
              \cup CustomFiles(state)
        b1 == create_backup(d.backup, d.tree, SetToSeq(all_touched_files))
        remaining == SelectSeq(records, LAMBDA r : r.name # s)
        remaining_skills == [i \in DOMAIN remaining |-> remaining[i].name]
        remaining_skill_files == UNION {DOMAIN remaining[i].file_hashes : i \in DOMAIN remaining}
        skill_entry == CHOOSE r \in Range(records) : r.name = s
        t1 == ResetToBase(d.tree, d.base, DOMAIN skill_entry.file_hashes \ remaining_skill_files)
        rp == replay_skills(remaining_skills, t1, d.base)
        rollback(err) ==
            Outcome(restore_backup(rp.tree, b1.bk, tombLast), restore_base(rp.base, b1.bk),
                    EmptyBackup, restore_state(d.ledger, b1.bk),
                    Res("uninstall", s, FALSE, FALSE, FALSE, err, all_touched_files, TRUE))
    IN
    IF ~rp.success THEN rollback("replay")
    ELSE IF (\E r \in Range(remaining) : r.structured_outcomes.test) /\ ~testOk
       THEN rollback("test")
    ELSE Outcome(rp.tree, rp.base, EmptyBackup,
                 [state EXCEPT !.applied_skills = RefreshedRecords(remaining, rp.tree)],
                 Res("uninstall", s, TRUE, FALSE, FALSE, "", all_touched_files, TRUE))

\* The project as the current state has it.
OnDisk == [Disk(tree, base, backup, ledger) EXCEPT !.custom = customize]

\* What the history keeps of a finished operation.
HistEntry(res) ==
    [op |-> res.op, skill |-> res.skill, success |-> res.success,
     backup_pending |-> res.backup_pending, bkPaths |-> res.bkPaths]

\* One finished operation: the new state, and the history the claims read.
Record(o) ==
    /\ tree' = o.tree
    /\ base' = o.base
    /\ backup' = o.backup
    /\ ledger' = o.ledger
    /\ last' = o.res
    /\ pre' = OnDisk
    /\ hist' = Append(hist, HistEntry(o.res))
    /\ UNCHANGED <<lockVars, concVars, cacheVars, fileVars, stepVars, pureVars, queueVars>>

\* An operation that leaves .g2/resolutions/ and .g2/custom/ alone.
Commit(o) ==
    /\ tree' = o.tree
    /\ base' = o.base
    /\ backup' = o.backup
    /\ ledger' = o.ledger
    /\ last' = o.res
    /\ pre' = OnDisk
    /\ hist' = Append(hist, HistEntry(o.res))
    /\ UNCHANGED <<lockVars, concVars, cacheVars, fileVars, stepVars, coreVars, pureVars, queueVars>>

Apply(s) ==
    /\ Len(hist) < MaxOps
    /\ \E postOk \in (IF Manifest(s).post_apply THEN BOOLEAN ELSE {TRUE}) :
       \E testOk \in (IF Manifest(s).test THEN BOOLEAN ELSE {TRUE}) :
       \E tombLast \in SUBSET BothInBackup(
                          create_backup(backup, tree, ApplyBackupPaths(Manifest(s))).bk) :
          Commit(apply_skill(OnDisk, s, postOk, testOk, tombLast))

Uninstall(s) ==
    /\ Len(hist) < MaxOps
    /\ \E testOk \in (IF \E r \in Range(ledger.applied_skills) :
                            r.name # s /\ r.structured_outcomes.test
                       THEN BOOLEAN ELSE {TRUE}) :
       \E tombLast \in SUBSET BothInBackup(
                          create_backup(backup, tree,
                             SetToSeq(UNION {DOMAIN ledger.applied_skills[i].file_hashes :
                                               i \in DOMAIN ledger.applied_skills}
                                        \cup CustomFiles(ledger))).bk) :
          Commit(uninstall_skill(OnDisk, ledger, s, testOk, tombLast))

\* The user gives up a conflicted operation, at once or after other
\* operations: restore_backup(), clear_backup().
AbortPending ==
    /\ Len(hist) < MaxOps
    /\ \E i \in DOMAIN hist :
          /\ hist[i].backup_pending
          /\ \A j \in (i + 1)..Len(hist) : hist[j].op # "abort"
    /\ \E tombLast \in SUBSET BothInBackup(backup) :
          Commit(Outcome(restore_backup(tree, backup, tombLast), restore_base(base, backup),
                         EmptyBackup, restore_state(ledger, backup),
                         Res("abort", last.skill, TRUE, FALSE, FALSE, "", {}, FALSE)))

InitTree ==
    [p \in Paths |->
        IF p \in {ConfigTs, OldTs} THEN <<0, 0>>
        ELSE IF p = EnvExample THEN <<>>
        ELSE NoFile]

\* state.path_remap with no entry.
EmptyRemap == [p \in {} |-> ""]

\* A file_hashes map with no entry.
EmptyHashes == [p \in {} |-> compute_file_hash(<<>>)]

\* custom_modifications: None and [] are both the empty sequence.
InitLedger ==
    [applied_skills |-> <<>>, core_version |-> 1, rebased_at |-> FALSE,
     path_remap |-> EmptyRemap, custom_modifications |-> <<>>]

\* init.py init_g2_dir: base/ is a snapshot of the project, the ledger empty.
FreshDisk == Disk(InitTree, InitTree, EmptyBackup, InitLedger)

NoRes == Res("none", "", TRUE, FALSE, FALSE, "", {}, FALSE)

FreshProject ==
    /\ tree = FreshDisk.tree
    /\ base = FreshDisk.base
    /\ backup = FreshDisk.backup
    /\ ledger = FreshDisk.ledger
    /\ pre = FreshDisk
    /\ last = NoRes
    /\ hist = <<>>

(***************************************************************************)
(* PART 2b -- core updates (update.py) and rebase (rebase.py).  A core is  *)
(* the directory handed to apply_update / rebase: its files, and the       *)
(* entries of its .g2-meta/path_remap.yaml.  Its version is the second     *)
(* hunk of its package.json.  No skill of the model adds or modifies       *)
(* src/old.ts, the only key of a path_remap, so resolve_path_remap is the  *)
(* identity on every manifest path.                                        *)
(***************************************************************************)

CoreRemap == [p \in {OldTs} |-> NewTs]

\* The new cores: src/config.ts unchanged or with one hunk rewritten,
\* src/old.ts kept or renamed to src/new.ts (with a path_remap entry), a
\* compose file with a service of the core's own or none.
CoreShapes ==
    {[cfg |-> <<0, 8>>, renamed |-> FALSE, svc |-> FALSE],
     [cfg |-> <<0, 8>>, renamed |-> TRUE, svc |-> FALSE],
     [cfg |-> <<8, 0>>, renamed |-> TRUE, svc |-> FALSE],
     [cfg |-> <<0, 0>>, renamed |-> TRUE, svc |-> TRUE]}

NewCores ==
    {[files |-> [p \in Paths |->
                   CASE p = ConfigTs -> c.cfg
                     [] p = OldTs -> IF c.renamed THEN NoFile ELSE <<0, 0>>
                     [] p = NewTs -> IF c.renamed THEN <<0, 0>> ELSE NoFile
                     [] p = EnvExample -> <<>>
                     [] p = PackageJson -> <<0, 2>>
                     [] p = DockerCompose -> IF c.svc THEN <<CacheService, 0>> ELSE NoFile
                     [] OTHER -> NoFile],
      remap |-> IF c.renamed THEN CoreRemap ELSE EmptyRemap] : c \in CoreShapes}

\* update.py:56-63: "version" of the new core's package.json, 0 for "unknown".
new_version(core) ==
    IF Exists(core.files, PackageJson) THEN core.files[PackageJson][2] ELSE 0

\* update.py preview_update: the core's files that differ from .g2/base/,
\* and the files of .g2/base/ the core no longer has.
preview_update(bs, core) ==
    [files_changed |->
        {p \in Paths : Exists(core.files, p)
                         /\ (~Exists(bs, p)
                               \/ compute_file_hash(bs[p]) # compute_file_hash(core.files[p]))},
     files_deleted |-> {p \in Paths : Exists(bs, p) /\ ~Exists(core.files, p)}]

\* update.py:151-208: a changed file that is missing is copied from the
\* core; the others are merged, current <- base -> new core, the current
\* file standing in for a missing base copy.
RECURSIVE MergeCore(_, _, _, _, _)
MergeCore(core, paths, fs, bs, conflicts) ==
    IF paths = <<>> THEN [tree |-> fs, base |-> bs, conflicts |-> conflicts]
    ELSE LET p == Head(paths) IN
         IF ~Exists(fs, p)
            THEN MergeCore(core, Tail(paths), [fs EXCEPT ![p] = core.files[p]], bs, conflicts)
         ELSE MergeCore(core, Tail(paths),
                 [fs EXCEPT ![p] = merge_file(fs[p], IF Exists(bs, p) THEN bs[p] ELSE fs[p],
                                              core.files[p]).content],
                 IF Exists(bs, p) THEN bs ELSE [bs EXCEPT ![p] = fs[p]],
                 IF merge_file(fs[p], IF Exists(bs, p) THEN bs[p] ELSE fs[p],
                               core.files[p]).clean
                    THEN conflicts ELSE Append(conflicts, p))

\* path_remap.py record_path_remap: the new entries over the old ones.
record_path_remap(l, remap) ==
    [l EXCEPT !.path_remap =
        [p \in DOMAIN @ \cup DOMAIN remap |-> IF p \in DOMAIN remap THEN remap[p] ELSE @[p]]]

\* update.py:264-292: the structured outcomes of the skills of "state",
\* merged into .env.example and docker-compose.yml.
RECURSIVE AllEnvAdditions(_)
AllEnvAdditions(records) ==
    IF records = <<>> THEN <<>>
    ELSE Head(records).structured_outcomes.env_additions \o AllEnvAdditions(Tail(records))

AllDockerServices(records) ==
    UNION {records[i].structured_outcomes.docker_compose_services : i \in DOMAIN records}

\* update.py:225-333, after a merge without conflicts: mg is the merged
\* tree, bk the backup, l the ledger on disk, dk what
\* merge_docker_compose_services makes of the compose file.
update_finish(state, core, bk, fs, l, dk, tombLast, listed) ==
    IF AllDockerServices(state.applied_skills) # {} /\ dk.raised
       THEN Outcome(restore_backup(fs, bk, tombLast), restore_base(core.files, bk),
                    EmptyBackup, restore_state(l, bk),
                    Res("update", "", FALSE, FALSE, FALSE, "port-collision", listed, TRUE))
    ELSE Outcome(IF AllDockerServices(state.applied_skills) # {}
                    THEN [fs EXCEPT ![DockerCompose] = dk.content] ELSE fs,
                 core.files, EmptyBackup,
                 [state EXCEPT !.core_version = new_version(core)],
                 Res("update", "", TRUE, FALSE, FALSE, "", listed, TRUE))

\* update.py:225-288: the deleted files removed, the path remap recorded,
\* the env additions of the applied skills merged again.
update_structured(state, core, bk, fs, l, tombLast, listed) ==
    update_finish(state, core, bk,
        IF AllEnvAdditions(state.applied_skills) # <<>>
           THEN [fs EXCEPT ![EnvExample] =
                    merge_env_additions(@, AllEnvAdditions(state.applied_skills))]
           ELSE fs,
        IF DOMAIN core.remap # {} THEN record_path_remap(l, core.remap) ELSE l,
        merge_docker_compose_services(fs[DockerCompose],
                                      AllDockerServices(state.applied_skills)),
        tombLast, listed)

\* update_merged with the backup cleared on the conflict return as well.
update_merged_cleared(d, state, core, bk, mg, deleted, tombLast, listed) ==
    Outcome(mg.tree, mg.base, EmptyBackup, d.ledger,
            Res("update", "", FALSE, mg.conflicts # <<>>, FALSE, "merge-conflict", listed, TRUE))

\* update.py:148-261: mg is the result of the merges.
update_merged(d, state, core, bk, mg, deleted, tombLast, listed) ==
    IF mg.conflicts # <<>>
       THEN Outcome(mg.tree, mg.base, bk, d.ledger,
                    Res("update", "", FALSE, TRUE, FALSE, "merge-conflict", listed, TRUE))
    ELSE update_structured(state, core, bk, Unlink(mg.tree, deleted), d.ledger,
                           tombLast, listed)

\* update.py:135-147: pv is the preview, b1 the backup of what it lists.
update_backed_up(d, state, core, pv, b1, tombLast) ==
    update_merged(d, state, core, b1.bk,
                  MergeCore(core, SetToSeq(pv.files_changed), d.tree, d.base, <<>>),
                  pv.files_deleted, tombLast, b1.listed)

UpdateBackupPaths(bs, core) ==
    SetToSeq(preview_update(bs, core).files_changed)
      \o SetToSeq(preview_update(bs, core).files_deleted)

\* The re-application of the recorded custom patches (update.py:232-248) is
\* left out: the updates are run on projects without custom modifications.

\* update.py apply_update on the project d, "state" being the ledger it
\* read at line 123 and writes back at line 322.
apply_update(d, state, core, tombLast) ==
    IF d.custom
       THEN Outcome(d.tree, d.base, d.backup, d.ledger,
                    Res("update", "", FALSE, FALSE, FALSE, "customize-active", {}, FALSE))
    ELSE update_backed_up(d, state, core, preview_update(d.base, core),
                          create_backup(d.backup, d.tree, UpdateBackupPaths(d.base, core)),
                          tombLast)

Update(core) ==
    /\ Len(hist) < MaxOps
    /\ \E tombLast \in SUBSET BothInBackup(
                          create_backup(backup, tree, UpdateBackupPaths(base, core)).bk) :
          Commit(apply_update(OnDisk, ledger, core, tombLast))

\* rebase.py _collect_tracked_files, and the files of .g2/base/ added to
\* them at rebase.py:81-83.
_collect_tracked_files(state) ==
    UNION {DOMAIN state.applied_skills[i].file_hashes : i \in DOMAIN state.applied_skills}
      \cup CustomFiles(state)

TrackedFiles(d, state) ==
    _collect_tracked_files(state) \cup {p \in Paths : Exists(d.base, p)}

RebaseBackupPaths(d, state) ==
    SetToSeq({p \in TrackedFiles(d, state) : Exists(d.tree, p)})

\* rebase.py:86-96: the tracked files that exist, their copies in
\* .g2/base/ that exist, and .g2/state.yaml; b1 is the backup with the
\* working files in it.
rebase_backup(d, tracked, b1) ==
    [b1 EXCEPT !.base = [p \in Paths |->
                           IF p \in tracked /\ Exists(d.base, p) THEN d.base[p] ELSE @[p]],
               !.state = <<d.ledger>>]

\* rebase.py:154-207 for one path: the new base is copied over the
\* project, then a tracked file with saved content is put back, kept, or
\* merged new base <- old base (its copy in the backup) -> saved.
rebase_file(core, fs, bk, tracked, p) ==
    IF p \notin tracked \/ ~Exists(fs, p) \/ fs[p] = <<>>
       THEN [content |-> IF Exists(core.files, p) THEN core.files[p] ELSE fs[p],
             clean |-> TRUE]
    ELSE IF ~Exists(core.files, p) THEN [content |-> fs[p], clean |-> TRUE]
    ELSE IF core.files[p] = fs[p] THEN [content |-> fs[p], clean |-> TRUE]
    ELSE IF bk.base[p] = NoFile THEN [content |-> fs[p], clean |-> TRUE]
    ELSE merge_file(core.files[p], bk.base[p], fs[p])

\* flatten_base without the removal of base copies whose file is gone.
flatten_base_copy_only(d, tracked) ==
    [p \in Paths |-> IF p \in tracked /\ Exists(d.tree, p) THEN d.tree[p] ELSE d.base[p]]

\* rebase.py:238-247: flatten, the working files copied into .g2/base/.
flatten_base(d, tracked) ==
    [p \in Paths |-> IF p \in tracked THEN d.tree[p] ELSE d.base[p]]

\* rebase_finish writing the refreshed hashes without rebased_at.
rebase_finish_unmarked(state, fs, bs, listed) ==
    Outcome(fs, bs, EmptyBackup,
            [state EXCEPT !.applied_skills = RefreshedRecords(@, fs),
                          !.custom_modifications = <<>>],
            Res("rebase", "", TRUE, FALSE, FALSE, "", listed, TRUE))

\* rebase_finish keeping the custom modifications in the ledger.
rebase_finish_custom_kept(state, fs, bs, listed) ==
    Outcome(fs, bs, EmptyBackup,
            [state EXCEPT !.applied_skills = RefreshedRecords(@, fs), !.rebased_at = TRUE],
            Res("rebase", "", TRUE, FALSE, FALSE, "", listed, TRUE))

\* rebase.py:249-273: the ledger of "state" with its hashes refreshed and
\* rebased_at set, written over .g2/state.yaml; the backup cleared.
rebase_finish(state, fs, bs, listed) ==
    Outcome(fs, bs, EmptyBackup,
            [state EXCEPT !.applied_skills = RefreshedRecords(@, fs),
                          !.custom_modifications = <<>>, !.rebased_at = TRUE],
            Res("rebase", "", TRUE, FALSE, FALSE, "", listed, TRUE))

\* rebase.py:136-234: onto a new base; bk is the backup.
rebase_onto(d, state, core, bk, tracked, listed) ==
    IF \E p \in Paths : ~rebase_file(core, d.tree, bk, tracked, p).clean
       THEN Outcome([p \in Paths |-> rebase_file(core, d.tree, bk, tracked, p).content],
                    core.files, bk, d.ledger,
                    Res("rebase", "", FALSE, TRUE, FALSE, "merge-conflict", listed, TRUE))
    ELSE rebase_finish(state,
                       [p \in Paths |-> rebase_file(core, d.tree, bk, tracked, p).content],
                       core.files, listed)

\* The result of a rebase that was given a new base names it in place of a
\* skill.
OntoNewBase(o) == [o EXCEPT !.res.skill = "new_base"]

\* rebase.py rebase on the project d, "state" being the ledger it read at
\* line 65; new_base is <<>> to flatten, or <<core>>.
rebase(d, state, new_base) ==
    IF state.applied_skills = <<>>
       THEN Outcome(d.tree, d.base, d.backup, d.ledger,
                    Res("rebase", "", FALSE, FALSE, FALSE, "no-skills", {}, FALSE))
    ELSE IF new_base = <<>>
       THEN rebase_finish(state, d.tree, flatten_base(d, TrackedFiles(d, state)),
                          TrackedFiles(d, state))
    ELSE OntoNewBase(
            rebase_onto(d, state, new_base[1],
                        rebase_backup(d, TrackedFiles(d, state),
                                      create_backup(d.backup, d.tree,
                                                    RebaseBackupPaths(d, state)).bk),
                        TrackedFiles(d, state), Range(RebaseBackupPaths(d, state))))

\* clear_all_resolutions leaving the entries where they are.
clear_all_resolutions_kept(entries) == entries

\* resolution_cache.py clear_all_resolutions: .g2/resolutions/ removed and
\* made again, empty.
clear_all_resolutions(entries) == {}

\* rebase.py rebase; a rebase that gets to line 265 clears the cache.
Rebase(new_base) ==
    /\ Len(hist) < MaxOps
    /\ Record(rebase(OnDisk, ledger, new_base))
    /\ resolutions' = IF rebase(OnDisk, ledger, new_base).res.success
                         THEN clear_all_resolutions(resolutions)
                         ELSE resolutions
    /\ UNCHANGED <<customize, pending, patches>>

\* resolution_cache.py save_resolution: an entry under the key of a skill
\* combination.
ResolutionKeys == {"discord+telegram", "slack+telegram"}

SaveResolution(key) ==
    /\ Len(hist) < MaxOps
    /\ Record(Outcome(tree, base, backup, ledger,
                      Res("save_resolution", key, TRUE, FALSE, FALSE, "", {}, FALSE)))
    /\ resolutions' = resolutions \cup {key}
    /\ UNCHANGED <<customize, pending, patches>>

\* customize.py:44-48: the recorded hashes of every applied skill, a later
\* record's entry for a path replacing an earlier one's.
RECURSIVE PendingHashes(_)
PendingHashes(records) ==
    IF records = <<>> THEN EmptyHashes
    ELSE records[Len(records)].file_hashes @@ PendingHashes(SubSeq(records, 1, Len(records) - 1))

\* The customize session on disk: pending.yaml (active, hashes), the patch
\* files and the ledger; raised: the call ended with an exception.
Session(active, hashes, ps, l, raised) ==
    [active |-> active, hashes |-> hashes, patches |-> ps, ledger |-> l, raised |-> raised]

\* start_customize beginning a new session over an active one.
start_customize_restart(active, hashes, ps, state) ==
    Session(TRUE, PendingHashes(state.applied_skills), ps, state, FALSE)

\* customize.py start_customize
start_customize(active, hashes, ps, state) ==
    IF active THEN Session(active, hashes, ps, state, TRUE)
    ELSE Session(TRUE, PendingHashes(state.applied_skills), ps, state, FALSE)

\* changed_files taking every file of pending.yaml.
changed_files_all(hashes, fs) == DOMAIN hashes

\* customize.py:77-87: the files of pending.yaml that are gone or whose
\* hash differs from the one in pending.yaml.
changed_files(hashes, fs) ==
    {p \in DOMAIN hashes : ~Exists(fs, p) \/ compute_file_hash(fs[p]) # hashes[p]}

\* The text diff -ruN reads on one side: the file's, nothing for /dev/null.
DiffText(fs, p) == IF Exists(fs, p) THEN fs[p] ELSE <<>>

\* customize.py:94-124: the combined diff of the changed files against
\* their copies in .g2/base/ has no text.
combined_patch_empty(changed, fs, bs) == \A p \in changed : DiffText(bs, p) = DiffText(fs, p)

\* state.py record_custom_modification
record_custom_modification(l, files_modified, patch_file) ==
    [l EXCEPT !.custom_modifications =
        Append(@, [files_modified |-> files_modified, patch_file |-> patch_file])]

\* customize.py:127-129: one plus the count of the recorded modifications.
seq_num(state) == Len(state.custom_modifications) + 1

\* customize.py commit_customize; diffOk: no diff run exits with 2 or more.
commit_customize(active, hashes, ps, fs, bs, state, diffOk) ==
    IF ~active THEN Session(active, hashes, ps, state, TRUE)
    ELSE IF changed_files(hashes, fs) = {} THEN Session(FALSE, EmptyHashes, ps, state, FALSE)
    ELSE IF ~diffOk THEN Session(active, hashes, ps, state, TRUE)
    ELSE IF combined_patch_empty(changed_files(hashes, fs), fs, bs)
       THEN Session(FALSE, EmptyHashes, ps, state, FALSE)
    ELSE Session(FALSE, EmptyHashes, ps \cup {seq_num(state)},
                 record_custom_modification(state, changed_files(hashes, fs), seq_num(state)),
                 FALSE)

\* customize.py abort_customize
abort_customize(active, hashes, ps, state) == Session(FALSE, EmptyHashes, ps, state, FALSE)

\* One call of customize.py: the session as it leaves it, and the history.
RecordSession(op, ss) ==
    /\ Record(Outcome(tree, base, backup, ss.ledger,
                      Res(op, "", ~ss.raised, FALSE, ss.raised, "", {}, FALSE)))
    /\ customize' = ss.active
    /\ pending' = ss.hashes
    /\ patches' = ss.patches
    /\ UNCHANGED resolutions

StartCustomize ==
    /\ Len(hist) < MaxOps
    /\ RecordSession("start_customize", start_customize(customize, pending, patches, ledger))

AbortCustomize ==
    /\ Len(hist) < MaxOps
    /\ RecordSession("abort_customize", abort_customize(customize, pending, patches, ledger))

CommitCustomize ==
    /\ Len(hist) < MaxOps
    /\ \E diffOk \in BOOLEAN :
          RecordSession("commit_customize",
                        commit_customize(customize, pending, patches, tree, base, ledger,
                                         diffOk))

(***************************************************************************)
(* PART 3 -- the resolution cache (resolution_cache.py load_resolutions).  *)
(***************************************************************************)

\* The files that have a preimage / resolution pair in the cache entry.
CachePaths == {ConfigTs, NewTs}

\* SHA-256 values, and the mark of a file that is not there.
HashValues == {0, 1}
Missing == -1

\* A file_hashes entry of meta.yaml (FileInputHashes), or none for the path.
NoEntry == [base |-> Missing, current |-> Missing, skill |-> Missing]
FileInputHashes == [base : HashValues, current : HashValues, skill : HashValues]

\* SHA-256 of .g2/base/<p>, of <p> in the working tree and of
\* <skill_dir>/modify/<p>, Missing where the file does not exist.
LiveHashes ==
    [base : HashValues \cup {Missing}, current : HashValues \cup {Missing},
     skill : HashValues \cup {Missing}]

\* The three comparisons of resolution_cache.py:161-174, with the base
\* comparison left out.
InputsMatchNoBase(expected, live) ==
    /\ live.current = expected.current
    /\ live.skill = expected.skill

\* resolution_cache.py:161-174: the three hash comparisons.
InputsMatch(expected, live) ==
    /\ live.base = expected.base
    /\ live.current = expected.current
    /\ live.skill = expected.skill

\* resolution_cache.py:144-199: the body of the loop for one pair; TRUE
\* when the pair's preimage / postimage are written into rr-cache.
LoadsPair(c, p) ==
    IF c.file_hashes[p] = NoEntry THEN FALSE
    ELSE IF ~c.skill_dir THEN FALSE
    ELSE IF c.live[p].base = Missing \/ c.live[p].current = Missing
              \/ c.live[p].skill = Missing THEN FALSE
    ELSE IF ~InputsMatch(c.file_hashes[p], c.live[p]) THEN FALSE
    ELSE IF c.sidecar[p] = "missing" THEN FALSE
    ELSE IF c.sidecar[p] = "empty" THEN FALSE
    ELSE TRUE

\* resolution_cache.py load_resolutions: the paths written to rr-cache and
\* the value returned.
load_resolutions(c) ==
    IF ~c.dir THEN [written |-> {}, result |-> FALSE]
    ELSE IF c.meta # "valid" THEN [written |-> {}, result |-> FALSE]
    ELSE IF c.pairs = {} THEN [written |-> {}, result |-> FALSE]
    ELSE IF ~c.git THEN [written |-> {}, result |-> FALSE]
    ELSE LET written == {p \in c.pairs : LoadsPair(c, p)}
         IN [written |-> written, result |-> written # {}]

\* A cache entry recorded for the live files.
Recorded == [base |-> 0, current |-> 0, skill |-> 0]

\* Every cache entry and project the call may meet: the entry of
\* src/config.ts is arbitrary; the one of src/new.ts was recorded for the
\* live files and varies only in its sidecar.
CacheInputs ==
    {[dir |-> d, meta |-> m, git |-> g, skill_dir |-> sd, pairs |-> ps,
      file_hashes |-> (ConfigTs :> e @@ NewTs :> Recorded),
      sidecar |-> (ConfigTs :> sc @@ NewTs :> sc2),
      live |-> (ConfigTs :> lv @@ NewTs :> Recorded)] :
        d \in BOOLEAN, m \in {"missing", "invalid", "valid"}, g \in BOOLEAN,
        sd \in BOOLEAN, ps \in SUBSET CachePaths,
        e \in FileInputHashes \cup {NoEntry},
        sc \in {"missing", "empty", "hash"}, sc2 \in {"missing", "hash"},
        lv \in LiveHashes}

\* No cache entry looked at yet.
NoCacheEntry ==
    [dir |-> FALSE, meta |-> "missing", git |-> FALSE, skill_dir |-> FALSE, pairs |-> {},
     file_hashes |-> [p \in CachePaths |-> NoEntry],
     sidecar |-> [p \in CachePaths |-> "missing"],
     live |-> [p \in CachePaths |-> NoEntry]]

\* No file of that name.
NoInode == -1

\* read_state has not run.
NotRead == << -1 >>

\* The processes that call write_state: 1 runs an operation that holds the
\* lock (apply.py:333, uninstall.py:199, update.py:322, rebase.py:262), 2 is
\* commit_customize, which takes no lock (customize.py:130-140,
\* state.py:88-101).
Writers == {1, 2}

\* The ledger state.yaml holds before any of the writes.
PreviousLedger == <<0, 0>>

\* yaml.safe_dump(state...) of writer w's k-th call, in blocks: every block
\* carries the mark of the call; the ledger with one more custom
\* modification is one block longer.
Dumped(w, k) == [i \in 1..(w + 1) |-> 10 * w + k]

\* state.yaml as it is before the writers start: inode 0, and no temp file.
FileAtRest ==
    /\ inodes = [i \in {0} |-> PreviousLedger]
    /\ stateYaml = 0
    /\ tmpYaml = NoInode
    /\ fd = [w \in Writers |-> NoInode]
    /\ wpc = [w \in Writers |-> "idle"]
    /\ wcalls = [w \in Writers |-> 0]
    /\ installed = [w \in Writers |-> NotRead]
    /\ seen = NotRead

\* No apply_skill is under way.
StepAtRest ==
    /\ apc = "idle"
    /\ askill = ""
    /\ aenv = [postOk |-> TRUE, testOk |-> TRUE]
    /\ started = <<>>
    /\ finished = 0
    /\ replayed = [skills |-> <<>>, per_skill |-> <<>>, env |-> <<>>, npm |-> [k \in {} |-> 0],
                   services |-> [k \in {} |-> 0], n |-> 0]

\* No function has been called on its own.
PureAtRest ==
    /\ fin = <<>>
    /\ fout = <<>>

\* The group queue has never been used.
QueueAtRest ==
    /\ groups = <<>>
    /\ active_count = 0
    /\ waiting_groups = {}
    /\ created = <<>>
    /\ running = <<>>
    /\ timers = <<>>
    /\ enqueued = 0
    /\ failures = 0
    /\ overlapped = FALSE

CacheAtRest ==
    /\ rc = NoCacheEntry
    /\ rrCache = {}
    /\ loaded = "none"

\* load_resolutions(skills, project_root, skill_dir), called once.
LoadResolutions ==
    /\ loaded = "none"
    /\ rrCache' = load_resolutions(rc).written
    /\ loaded' = IF load_resolutions(rc).result THEN "true" ELSE "false"
    /\ UNCHANGED <<rc, lockVars, engineVars, concVars, coreVars, fileVars, stepVars, pureVars, queueVars>>

\* No lock file and nobody at work on it.
LockAtRest ==
    /\ now = STALE_TIMEOUT_S + 1
    /\ foreignAlive = FALSE
    /\ lockFile = NoLock
    /\ pc = [p \in Procs |-> "idle"]
    /\ myTs = [p \in Procs |-> 0]
    /\ exitPath = [p \in Procs |-> "none"]
    /\ calls = [p \in Procs |-> 0]
    /\ actor = 0

\* Nobody runs an operation.
NoJob == [op |-> "none", skill |-> "", state |-> InitLedger, stale |-> FALSE]

ConcAtRest ==
    /\ job = [p \in Procs |-> NoJob]
    /\ start = FreshDisk

\* No cached resolution of the project's own, no customize session.
CoreAtRest ==
    /\ resolutions = {}
    /\ customize = FALSE
    /\ pending = EmptyHashes
    /\ patches = {}

EngineInit == FreshProject /\ LockAtRest /\ ConcAtRest /\ CacheAtRest /\ CoreAtRest /\ FileAtRest /\ StepAtRest /\ PureAtRest /\ QueueAtRest

EngineNext ==
    \/ \E s \in Skills : Apply(s)
    \/ \E s \in Skills : Uninstall(s)
    \/ AbortPending

(***************************************************************************)
(* PART 4 -- two processes, each running one operation: the ledger is read *)
(* before the lock is taken (uninstall.py:22, update.py:123, rebase.py:65). *)
(* acquire_lock is taken here as one step and with no lock file on disk at *)
(* the start, so two bodies never overlap.                                 *)
(***************************************************************************)

AsDisk(o) == Disk(o.tree, o.base, o.backup, o.ledger)

\* The operations a process may be asked to run.
Jobs == {[op |-> o, skill |-> s] : o \in MutatingOps, s \in {"telegram", "discord", "slack"}}

\* The operation of job j on the project d; "state" is the ledger the
\* operation read when it was called.
RunJob(d, j, state, postOk, testOk, tombLast) ==
    IF j.op = "apply" THEN apply_skill(d, j.skill, postOk, testOk, tombLast)
    ELSE uninstall_skill(d, state, j.skill, testOk, tombLast)

\* What the job hands to create_backup (apply.py:122-134, uninstall.py:63-73).
JobBackupPaths(j) ==
    IF j.op = "apply" THEN ApplyBackupPaths(Manifest(j.skill))
    ELSE SetToSeq(UNION {DOMAIN j.state.applied_skills[i].file_hashes :
                           i \in DOMAIN j.state.applied_skills}
                    \cup CustomFiles(j.state))

\* What the checks before acquire_lock() make of job j on the project as it
\* is when the operation is called.
Preflight(j) == RunJob(OnDisk, j, ledger, TRUE, TRUE, {})

\* The operation is called and refused by a check before the lock
\* (apply.py:49-92, uninstall.py:22-56): it returns at once.
ConcRefused(p, j) ==
    /\ pc[p] = "idle"
    /\ calls[p] = 0
    /\ ~Preflight(j).res.locked
    /\ calls' = [calls EXCEPT ![p] = 1]
    /\ job' = [job EXCEPT ![p] = [op |-> j.op, skill |-> j.skill, state |-> ledger,
                                  stale |-> FALSE]]
    /\ last' = Preflight(j).res
    /\ pre' = OnDisk
    /\ hist' = Append(hist, HistEntry(Preflight(j).res))
    /\ exitPath' = [exitPath EXCEPT ![p] = "refused"]
    /\ Goto(p, "done")
    /\ actor' = p
    /\ UNCHANGED <<now, lockFile, foreignAlive, myTs, start, tree, base, backup, ledger,
                   cacheVars, fileVars, stepVars, coreVars, pureVars, queueVars>>

\* The operation is called: read_state() and the checks before the lock.
ConcCall(p, j) ==
    /\ pc[p] = "idle"
    /\ calls[p] = 0
    /\ Preflight(j).res.locked
    /\ calls' = [calls EXCEPT ![p] = 1]
    /\ job' = [job EXCEPT ![p] = [op |-> j.op, skill |-> j.skill, state |-> ledger,
                                  stale |-> FALSE]]
    /\ Goto(p, "create1")
    /\ actor' = p
    /\ UNCHANGED <<now, lockFile, foreignAlive, myTs, exitPath, start, engineVars, cacheVars, fileVars, stepVars, coreVars, pureVars, queueVars>>

\* acquire_lock(): the lock of a live process raises, otherwise it is taken.
ConcAcquire(p) ==
    /\ pc[p] = "create1"
    /\ IF lockFile.exists
          THEN Goto(p, "failed") /\ UNCHANGED <<lockFile, myTs>>
          ELSE /\ lockFile' = WrittenLock(p, now)
               /\ myTs' = [myTs EXCEPT ![p] = now]
               /\ Goto(p, "locked")
    /\ actor' = p
    /\ UNCHANGED <<now, foreignAlive, exitPath, calls, concVars, engineVars, cacheVars, fileVars, stepVars, coreVars, pureVars, queueVars>>

ExitOf(res) ==
    IF res.success THEN "success"
    ELSE IF res.backup_pending THEN "conflict_pending"
    ELSE IF res.raised THEN "raised"
    ELSE "rolled_back"

\* The body returned o (or raised), and its finally ran release_lock().
ConcReturn(p, o) ==
    /\ tree' = o.tree
    /\ base' = o.base
    /\ backup' = o.backup
    /\ ledger' = o.ledger
    /\ last' = o.res
    /\ pre' = OnDisk
    /\ hist' = Append(hist, HistEntry(o.res))
    /\ exitPath' = [exitPath EXCEPT ![p] = ExitOf(o.res)]
    /\ job' = [job EXCEPT ![p].stale = (job[p].state # ledger)]
    /\ lockFile' = NoLock
    /\ Goto(p, "done")
    /\ actor' = p
    /\ UNCHANGED <<now, foreignAlive, myTs, calls, start, cacheVars, fileVars, stepVars, coreVars, pureVars, queueVars>>

\* The locked body of the operation, on the project as it is now and with
\* the ledger the operation read when it was called.
ConcBody(p) ==
    /\ pc[p] = "locked"
    /\ \E postOk \in BOOLEAN, testOk \in BOOLEAN :
       \E tombLast \in SUBSET BothInBackup(
                          create_backup(backup, tree, JobBackupPaths(job[p])).bk) :
          ConcReturn(p, RunJob(OnDisk, job[p], job[p].state, postOk, testOk, tombLast))

ConcNext ==
    \E p \in Procs :
        \/ \E j \in Jobs : ConcRefused(p, j)
        \/ \E j \in Jobs : ConcCall(p, j)
        \/ ConcAcquire(p)
        \/ ConcBody(p)

\* The projects the two operations may start from: fresh, or with telegram,
\* or telegram and then discord, applied.
StartDisks ==
    {FreshDisk,
     AsDisk(apply_skill(FreshDisk, "telegram", TRUE, TRUE, {})),
     AsDisk(apply_skill(AsDisk(apply_skill(FreshDisk, "telegram", TRUE, TRUE, {})),
                        "discord", TRUE, TRUE, {}))}

ConcInit ==
    /\ LockAtRest
    /\ FileAtRest
    /\ StepAtRest /\ PureAtRest /\ QueueAtRest
    /\ CacheAtRest
    /\ CoreAtRest
    /\ start \in StartDisks
    /\ tree = start.tree
    /\ base = start.base
    /\ backup = start.backup
    /\ ledger = start.ledger
    /\ pre = start
    /\ last = NoRes
    /\ hist = <<>>
    /\ job = [p \in Procs |-> NoJob]

\* The load of one cache entry.
CacheInit ==
    /\ LockAtRest
    /\ FileAtRest
    /\ StepAtRest /\ PureAtRest /\ QueueAtRest
    /\ FreshProject
    /\ ConcAtRest
    /\ CoreAtRest
    /\ rc \in CacheInputs
    /\ rrCache = {}
    /\ loaded = "none"

CacheNext == LoadResolutions

\* Any lock file may be on disk when the two processes start.
LockInit ==
    /\ now = STALE_TIMEOUT_S + 1
    /\ foreignAlive \in BOOLEAN
    /\ lockFile \in {NoLock,
                     EmptyLock(ForeignPid),
                     WrittenLock(ForeignPid, 0),
                     WrittenLock(ForeignPid, STALE_TIMEOUT_S + 1)}
    /\ pc = [p \in Procs |-> "idle"]
    /\ myTs = [p \in Procs |-> 0]
    /\ exitPath = [p \in Procs |-> "none"]
    /\ calls = [p \in Procs |-> 0]
    /\ actor = 0
    /\ FreshProject
    /\ ConcAtRest
    /\ CacheAtRest
    /\ CoreAtRest
    /\ FileAtRest
    /\ StepAtRest /\ PureAtRest /\ QueueAtRest

\* The project with telegram applied whose record in state.yaml names a
\* custom patch (types.py AppliedSkill.custom_patch).
PatchedDisk ==
    [AsDisk(apply_skill(FreshDisk, "telegram", TRUE, TRUE, {}))
        EXCEPT !.ledger.applied_skills[1].custom_patch = TRUE]

\* The projects an update or a rebase may meet: fresh, telegram applied,
\* telegram and discord applied, redis applied, telegram applied and patched.
CoreStartDisks ==
    StartDisks \cup {AsDisk(apply_skill(FreshDisk, "redis", TRUE, TRUE, {})), PatchedDisk}

CoreInit ==
    /\ LockAtRest
    /\ FileAtRest
    /\ StepAtRest /\ PureAtRest /\ QueueAtRest
    /\ CacheAtRest
    /\ CoreAtRest
    /\ start \in CoreStartDisks
    /\ tree = start.tree
    /\ base = start.base
    /\ backup = start.backup
    /\ ledger = start.ledger
    /\ pre = start
    /\ last = NoRes
    /\ hist = <<>>
    /\ job = [p \in Procs |-> NoJob]

\* The skills an uninstall is asked for here, applied or not: telegram and
\* discord sharing src/config.ts, voice changing the file telegram adds,
\* redis with its compose service. SpecEngine uninstalls the others.
UninstallSkills == {"telegram", "discord", "voice", "redis"}

\* The new bases a rebase is given: the renaming cores without a compose
\* file, one merging cleanly with the skills' hunks and one not.
RebaseCores == {core \in NewCores : core.remap # EmptyRemap /\ ~Exists(core.files, DockerCompose)}

CoreNext ==
    \/ \E s \in CoreSkills : Apply(s)
    \/ \E s \in UninstallSkills : Uninstall(s)
    \/ AbortPending
    \/ \E core \in NewCores : Update(core)
    \/ \E new_base \in {<<>>} \cup {<<core>> : core \in RebaseCores} : Rebase(new_base)
    \/ \E key \in ResolutionKeys : SaveResolution(key)
    \/ StartCustomize
    \/ AbortCustomize

\* The lock protocol alone: two processes, no engine state.
SpecLock == LockInit /\ [][LockNext]_vars

\* One process running whole operations one after the other.
SpecEngine == EngineInit /\ [][EngineNext]_vars

\* Two processes, one operation each, the lock taken in one step.
SpecConc == ConcInit /\ [][ConcNext]_vars

\* load_resolutions on every cache entry and project of CacheInputs.
SpecCache == CacheInit /\ [][CacheNext]_vars

\* One process running applies, uninstalls, updates, rebases and customize
\* sessions one after the other.
SpecCore == CoreInit /\ [][CoreNext]_vars

\* The user edits a file of the working tree by hand: rewrites its second
\* hunk, puts the text of .g2/base/ back, or deletes it.
EditedFiles == {ConfigTs, TelegramTs}

Edits(p) ==
    (IF Exists(tree, p) THEN {[tree[p] EXCEPT ![2] = 7]} ELSE {})
      \cup (IF Exists(tree, p) /\ Exists(base, p) THEN {base[p]} ELSE {})
      \cup {NoFile}

UserEdit(p) ==
    /\ Len(hist) < MaxOps
    /\ \E c \in Edits(p) \ {tree[p]} :
          Commit(Outcome([tree EXCEPT ![p] = c], base, backup, ledger,
                         Res("edit", "", TRUE, FALSE, FALSE, "", {}, FALSE)))

\* The project with telegram and discord applied after one customize
\* session in which the user rewrote the second hunk of src/telegram.ts.
Customized(d, fs) ==
    [d EXCEPT !.tree = fs,
              !.ledger = commit_customize(TRUE, PendingHashes(d.ledger.applied_skills), {},
                                          fs, d.base, d.ledger, TRUE).ledger]

TwoSkillsDisk ==
    AsDisk(apply_skill(AsDisk(apply_skill(FreshDisk, "telegram", TRUE, TRUE, {})),
                       "discord", TRUE, TRUE, {}))

CustomizedDisk == Customized(TwoSkillsDisk, [TwoSkillsDisk.tree EXCEPT ![TelegramTs] = <<1, 7>>])

CustomStartDisks == StartDisks \cup {CustomizedDisk}

CustomInit ==
    /\ LockAtRest
    /\ FileAtRest
    /\ StepAtRest /\ PureAtRest /\ QueueAtRest
    /\ CacheAtRest
    /\ resolutions = {}
    /\ customize = FALSE
    /\ pending = EmptyHashes
    /\ start \in CustomStartDisks
    /\ patches = {start.ledger.custom_modifications[i].patch_file :
                    i \in DOMAIN start.ledger.custom_modifications}
    /\ tree = start.tree
    /\ base = start.base
    /\ backup = start.backup
    /\ ledger = start.ledger
    /\ pre = start
    /\ last = NoRes
    /\ hist = <<>>
    /\ job = [p \in Procs |-> NoJob]

CustomNext ==
    \/ StartCustomize
    \/ \E p \in EditedFiles : UserEdit(p)
    \/ CommitCustomize
    \/ AbortCustomize
    \/ Apply("discord")
    \/ \E new_base \in {<<>>} \cup {<<core>> : core \in RebaseCores} : Rebase(new_base)

\* Customize sessions with the user's edits, an apply and rebases between
\* and around them.
SpecCustom == CustomInit /\ [][CustomNext]_vars

(***************************************************************************)
(* PART 5 -- the properties checked, by claim.                             *)
(***************************************************************************)

\* C1: two concurrent invocations never both proceed past lock acquisition:
\* at most one process is inside the locked section at any time.
C1_LockExclusivity == Cardinality({p \in Procs : pc[p] = "locked"}) <= 1

\* C1 case: a process is inside the locked section while the other one is
\* still in acquire_lock.
C1_Racing == \E p, q \in Procs : pc[p] = "locked" /\ pc[q] \in {"read", "unlink", "create2"}

\* The last operation created its backup and then failed (a conflict that
\* leaves the backup pending is not a failure of this kind).
FailedAfterBackup ==
    /\ last.op \in MutatingOps
    /\ ~last.success
    /\ ~last.backup_pending
    /\ last.bkPaths # {}

\* C2: after an operation that created its backup and then failed, every
\* path the operation backed up has the bytes it had before the operation,
\* and a backed-up path that did not exist is absent -- also when the
\* backup of an earlier conflicted operation was still pending.
C2_TreeRestoredOnFailure ==
    FailedAfterBackup => \A p \in last.bkPaths : tree[p] = pre.tree[p]

\* C2 case: the operation failed after its backup, a backup was pending when
\* it started, and it backed up a path that did not exist.
C2_FailedOverPendingBackup ==
    /\ FailedAfterBackup
    /\ pre.backup.exists
    /\ \E p \in last.bkPaths : ~Exists(pre.tree, p)

\* C3: right after a successful operation, every path in the file_hashes of
\* every applied skill exists and hashes to the recorded value.
C3_LedgerHashesMatchTree ==
    (last.op \in MutatingOps /\ last.success) =>
        \A r \in Range(ledger.applied_skills) : \A p \in DOMAIN r.file_hashes :
            Exists(tree, p) /\ compute_file_hash(tree[p]) = r.file_hashes[p]

\* C3 case: a successful apply changed a file recorded for another skill.
C3_SecondSkillChangedSharedFile ==
    /\ last.op = "apply" /\ last.success
    /\ \E r \in Range(ledger.applied_skills) :
          /\ r.name # last.skill
          /\ \E p \in DOMAIN r.file_hashes : tree[p] # pre.tree[p]

\* C4: an operation that fails with a recoverable error after creating its
\* backup leaves the ledger as it was when the operation started, and the
\* backup directory is gone.
C4_LedgerUnchangedOnFailure ==
    (FailedAfterBackup /\ ~last.raised) => (ledger = pre.ledger /\ backup = EmptyBackup)

\* C4 case: the re-apply of an already applied skill failed after its backup.
C4_ReapplyFailed ==
    /\ FailedAfterBackup
    /\ last.op = "apply"
    /\ last.skill \in AppliedNames(pre.ledger)

\* apply(s) alone on a freshly initialised project, every command passing.
ApplyAlone(s) == apply_skill(FreshDisk, s, TRUE, TRUE, {})

\* b applies cleanly on top of a applied to a fresh project.
AppliesCleanlyAfter(a, b) ==
    /\ ApplyAlone(a).res.success
    /\ apply_skill(AsDisk(ApplyAlone(a)), b, TRUE, TRUE, {}).res.success

Did(i, op, s) == hist[i].op = op /\ hist[i].skill = s /\ hist[i].success

\* C5: when a and b apply cleanly in both orders, the working tree after
\* apply(a); apply(b); uninstall(a) on a fresh project is, file for file
\* and byte for byte, the tree of apply(b) alone.
C5_UninstallEqualsApplyAlone ==
    \A a, b \in Skills :
        (/\ a # b
         /\ Len(hist) = 3
         /\ Did(1, "apply", a) /\ Did(2, "apply", b) /\ Did(3, "uninstall", a)
         /\ AppliesCleanlyAfter(a, b) /\ AppliesCleanlyAfter(b, a))
        => tree = ApplyAlone(b).tree

\* C5 case: apply(a); apply(b); uninstall(a) all succeeded, and the other
\* order applies cleanly too.
C5_AppliedTwoUninstalledFirst ==
    \E a, b \in Skills :
        /\ a # b
        /\ Len(hist) = 3
        /\ Did(1, "apply", a) /\ Did(2, "apply", b) /\ Did(3, "uninstall", a)
        /\ AppliesCleanlyAfter(b, a)

\* The two operations of jobs j1 and then j2, one after the other on the
\* project d, every command passing.
Serial(d, j1, j2) ==
    LET o1 == RunJob(d, j1, d.ledger, TRUE, TRUE, {})
        o2 == RunJob(AsDisk(o1), j2, o1.ledger, TRUE, TRUE, {})
    IN [tree |-> o2.tree, ledger |-> o2.ledger]

BothSucceeded == \A p \in Procs : pc[p] = "done" /\ exitPath[p] = "success"

JobOf(p) == [op |-> job[p].op, skill |-> job[p].skill]

\* C6: when the two concurrently started operations both report success,
\* the ledger and the working tree are those of running the two, in one
\* order or the other, one after the other: no ledger change is lost.
C6_ConcurrentEqualsSerial ==
    BothSucceeded =>
        \E p, q \in Procs :
            /\ p # q
            /\ Serial(start, JobOf(p), JobOf(q)).tree = tree
            /\ Serial(start, JobOf(p), JobOf(q)).ledger = ledger

\* C6 case: both succeeded, one of them on a ledger the other had changed
\* since it was read.
C6_SucceededOnStaleLedger ==
    /\ BothSucceeded
    /\ \E p \in Procs : job[p].stale

\* A lock file written by a live process less than STALE_TIMEOUT_S ago.
FreshLiveLock(f) == Parses(f) /\ ~_is_stale(f) /\ _is_process_alive(f.pid)

\* C7: a lock file held by a live process and written less than 5 minutes ago
\* is never removed or replaced by a different process.
C7_FreshLiveLockKept ==
    [][(FreshLiveLock(lockFile) /\ lockFile' # lockFile) => actor' = lockFile.pid]_vars

\* C7 case: a process holds a fresh lock file with its own pid in it.
C7_HoldsFreshLock == \E p \in Procs : pc[p] = "locked" /\ lockFile = WrittenLock(p, now)

\* The call of process p has ended (returned or raised), or p never called.
Ended(p) == pc[p] \in {"idle", "done", "failed"}

\* C8: every call that acquired the lock has released it by the time the call
\* ends, on every exit path: no lock file naming the caller is left behind.
C8_LockReleasedOnEveryExit ==
    \A p \in Procs : Ended(p) => ~(lockFile.exists /\ lockFile.pid = p)

\* C8 case: a call that held the lock ended by raising, and the other process
\* then acquired the lock.
C8_RaisedThenOtherLocked ==
    \E p, q \in Procs :
        /\ pc[p] = "done" /\ exitPath[p] = "raised"
        /\ pc[q] = "locked" /\ lockFile = WrittenLock(q, myTs[q])

\* C9: apply of a manifest that names a path with ".." or an absolute path
\* anywhere (adds, modifies, file_ops from / to / path) fails and leaves
\* every working-tree file as it was.
C9_BadPathLeavesTreeUntouched ==
    (/\ last.op = "apply"
     /\ \E p \in ManifestPaths(Manifest(last.skill)) : InvalidManifestPath(p))
    => (~last.success /\ tree = pre.tree)

\* C9 case: apply failed on a manifest whose offending path is in a file
\* operation after the first.
C9_BadPathInLaterFileOp ==
    /\ last.op = "apply"
    /\ ~last.success
    /\ \E i \in DOMAIN Manifest(last.skill).file_ops :
          /\ i > 1
          /\ InvalidManifestPath(Manifest(last.skill).file_ops[i].path)

\* The hashes meta.yaml records for p are those of the live base, working
\* tree and skill files.
RecordedForLiveFiles(p) ==
    /\ rc.file_hashes[p] # NoEntry
    /\ rc.skill_dir
    /\ rc.file_hashes[p].base = rc.live[p].base
    /\ rc.file_hashes[p].current = rc.live[p].current
    /\ rc.file_hashes[p].skill = rc.live[p].skill

\* The cache entry can be read at all: the directory, a meta.yaml that
\* parses, and a git directory to write rr-cache into.
EntryUsable == rc.dir /\ rc.meta = "valid" /\ rc.git

\* C10 as stated: the resolution of a pair is in rr-cache after the load
\* if and only if the three recorded hashes equal the live ones.
C10_LoadedIffHashesMatch ==
    (loaded # "none" /\ rc.dir /\ rc.meta = "valid") =>
        \A p \in rc.pairs : (p \in rrCache <=> RecordedForLiveFiles(p))

\* C10: the resolution of a pair is in rr-cache after the load only if the
\* three recorded hashes equal the live ones (none is loaded when a hash
\* differs, a file is missing or the path has no entry); with equal hashes
\* it is loaded exactly when the pair also has a non-empty .preimage.hash
\* sidecar and the entry is usable.
C10_LoadedIffHashesMatchAndSidecar ==
    loaded # "none" =>
        /\ rrCache \subseteq rc.pairs
        /\ \A p \in rc.pairs :
              /\ p \in rrCache => RecordedForLiveFiles(p)
              /\ RecordedForLiveFiles(p) =>
                    (p \in rrCache <=> (EntryUsable /\ rc.sidecar[p] = "hash"))
        /\ (loaded = "true" <=> rrCache # {})

\* C10 case: one load wrote the resolution of src/config.ts and skipped the
\* pair of src/new.ts.
C10_OneLoadedOneSkipped ==
    /\ loaded = "true"
    /\ ConfigTs \in rrCache
    /\ NewTs \in rc.pairs \ rrCache

\* C11: after a rebase that succeeded, flatten or onto a new base,
\* .g2/resolutions/ holds no entry.
C11_ResolutionsEmptyAfterRebase ==
    (last.op = "rebase" /\ last.success) => resolutions = {}

\* A rebase succeeded right after save_resolution had put an entry in the
\* cache.
C11_RebasedOverSavedResolution ==
    /\ Len(hist) >= 2
    /\ hist[Len(hist) - 1].op = "save_resolution"
    /\ last.op = "rebase"
    /\ last.success
    /\ ledger.rebased_at

\* The operation that just returned has replaced .g2/base/: a rebase that
\* succeeded or stopped on conflicts (only a rebase onto a new base does),
\* an update that got past line 261.
BaseReplaced ==
    \/ last.op = "rebase" /\ (last.success \/ last.error = "merge-conflict")
    \/ last.op = "update" /\ (last.success \/ last.error = "port-collision")

\* C12: when an operation that replaced .g2/base/ returns, no entry of
\* .g2/resolutions/ saved against the old base is left.
C12_NoStaleResolutionAfterBaseReplaced ==
    BaseReplaced => resolutions = {}

\* An update succeeded and put new content in .g2/base/ right after
\* save_resolution had recorded an entry against the old base.
C12_UpdatedOverSavedResolution ==
    /\ Len(hist) >= 2
    /\ hist[Len(hist) - 1].op = "save_resolution"
    /\ last.op = "update"
    /\ last.success
    /\ base # pre.base

\* C13: apply, uninstall (and the replay in it) and the customize calls
\* leave every file of .g2/base/ as it was.
C13_BaseUntouchedByApplyUninstallCustomize ==
    last.op \in {"apply", "uninstall", "start_customize", "abort_customize"}
        => base = pre.base

\* voice, which modifies the file telegram added (a file with no copy in
\* .g2/base/), was applied with success.
C13_ModifiedFileWithoutBaseCopy ==
    /\ last.op = "apply"
    /\ last.skill = "voice"
    /\ last.success
    /\ ~Exists(pre.base, TelegramTs)

\* The errors of the checks an operation makes before it takes the lock
\* (for apply, reading the manifest included).
PreflightErrors ==
    {"invalid-path", "system-version", "customize-active", "missing-dependency",
     "conflicting-skill", "after-rebase", "not-applied", "no-skills"}

Refused == ~last.success /\ last.error \in PreflightErrors

\* backup_pending goes with unresolved conflicts, a failure and an
\* unchanged ledger.
PendingMeansConflict ==
    /\ last.backup_pending <=> last.error = "merge-conflict"
    /\ last.backup_pending => (~last.success /\ ledger = pre.ledger)

AbortedFirstOperation ==
    /\ Len(hist) >= 2
    /\ hist[1].backup_pending
    /\ last.op = "abort"
    /\ \A j \in 1..(Len(hist) - 1) : hist[j].op # "abort"

\* C15: restore_backup(); clear_backup() after a backup_pending return puts
\* every path the backup covers back to what it was before the conflicted
\* operation and leaves no .g2/backup/, whatever was attempted in between.
C15_AbortRestoresPreOperationTree ==
    AbortedFirstOperation
        => /\ \A p \in hist[1].bkPaths : tree[p] = start.tree[p]
           /\ ~backup.exists

\* The same for an abort that directly follows the conflicted operation.
C15_DirectAbortRestores ==
    (AbortedFirstOperation /\ Len(hist) = 2)
        => /\ \A p \in hist[1].bkPaths : tree[p] = start.tree[p]
           /\ ~backup.exists

\* A conflicted operation, another operation that succeeded, then the abort.
C15_AbortedAfterOtherOperation ==
    /\ AbortedFirstOperation
    /\ Len(hist) = 3
    /\ hist[2].op \in {"apply", "uninstall", "update", "rebase"}
    /\ hist[2].success

\* The update that just returned failed after its backup was made, for
\* another reason than unresolved conflicts.
UpdateFailedAfterBackup ==
    /\ last.op = "update"
    /\ ~last.success
    /\ ~last.backup_pending
    /\ ~Refused

\* C16: an update that fails after its backup was made, for another reason
\* than conflicts, leaves the working tree, .g2/base/ and the ledger as
\* they were before it.
C16_FailedUpdateChangesNothing ==
    UpdateFailedAfterBackup
        => /\ tree = pre.tree
           /\ base = pre.base
           /\ ledger = pre.ledger

\* An update failed on a port collision while merging the applied skills'
\* compose services again, after the new core's path_remap was recorded.
C16_FailedAfterRemapRecorded ==
    /\ UpdateFailedAfterBackup
    /\ last.error = "port-collision"
    /\ OldTs \in DOMAIN ledger.path_remap
    /\ OldTs \notin DOMAIN pre.ledger.path_remap

\* The new core of the update that just succeeded: the one whose files
\* .g2/base/ now holds.
UpdatedTo == CHOOSE core \in NewCores : core.files = base

UpdatedWithRemap ==
    /\ last.op = "update"
    /\ last.success
    /\ DOMAIN UpdatedTo.remap # {}

\* C17: after an update that succeeded with a new core shipping
\* .g2-meta/path_remap.yaml, the ledger's path_remap holds every entry of
\* that file, over the entries it had before, and core_version is the new
\* core's.
C17_PathRemapRecordedByUpdate ==
    UpdatedWithRemap
        => /\ \A p \in DOMAIN UpdatedTo.remap :
                 p \in DOMAIN ledger.path_remap /\ ledger.path_remap[p] = UpdatedTo.remap[p]
           /\ \A p \in DOMAIN pre.ledger.path_remap \ DOMAIN UpdatedTo.remap :
                 p \in DOMAIN ledger.path_remap
                    /\ ledger.path_remap[p] = pre.ledger.path_remap[p]
           /\ ledger.core_version = new_version(UpdatedTo)

\* An update to a core that renames src/old.ts and ships the remap entry
\* for it succeeded and wrote the new core_version.
C17_UpdatedToRenamingCore ==
    /\ UpdatedWithRemap
    /\ ledger.core_version = 2
    /\ Exists(tree, NewTs)

\* A check that the operation makes before acquire_lock() fails on the
\* project the operation was called on.
PreflightFails ==
    \/ /\ last.op = "apply"
       /\ \/ Manifest(last.skill).min_skills_system_version > SKILLS_SCHEMA_VERSION
          \/ pre.custom
          \/ \E s \in Manifest(last.skill).depends : s \notin AppliedNames(pre.ledger)
          \/ \E s \in Manifest(last.skill).conflicts : s \in AppliedNames(pre.ledger)
    \/ last.op = "update" /\ pre.custom
    \/ /\ last.op = "uninstall"
       /\ \/ pre.ledger.rebased_at
          \/ last.skill \notin AppliedNames(pre.ledger)
          \/ \E i \in DOMAIN pre.ledger.applied_skills :
                /\ pre.ledger.applied_skills[i].name = last.skill
                /\ pre.ledger.applied_skills[i].custom_patch
    \/ last.op = "rebase" /\ pre.ledger.applied_skills = <<>>

Rebased(i) == hist[i].op = "rebase" /\ hist[i].success

RebasedEarlier == \E i \in 1..(Len(hist) - 1) : Rebased(i)

\* C19: once a rebase has succeeded the ledger carries rebased_at whatever
\* applies, updates, customize sessions, aborts and rebases follow, and every
\* later uninstall is refused and changes nothing.
C19_NoUninstallAfterRebase ==
    /\ (\E i \in DOMAIN hist : Rebased(i)) => ledger.rebased_at
    /\ (last.op = "uninstall" /\ RebasedEarlier)
          => /\ ~last.success
             /\ tree = pre.tree
             /\ base = pre.base
             /\ backup = pre.backup
             /\ ledger = pre.ledger

\* An applied skill's uninstall was refused after a rebase and another
\* operation in between.
C19_UninstallRefusedAfterRebase ==
    /\ last.op = "uninstall"
    /\ ~last.success
    /\ last.skill \in AppliedNames(ledger)
    /\ \E i \in 1..(Len(hist) - 2) : Rebased(i)

\* The successful uninstall of last.skill left other skills applied.
UninstalledOneOfSeveral ==
    /\ last.op = "uninstall"
    /\ last.success
    /\ ledger.applied_skills # <<>>

Names(records) == [i \in DOMAIN records |-> records[i].name]

\* The records the ledger held before the uninstall, without the skill's.
RemainingBefore == SelectSeq(pre.ledger.applied_skills, LAMBDA r : r.name # last.skill)

Touches(s, p) == p \in Range(Manifest(s).adds) \cup Range(Manifest(s).modifies)

\* The text a skill's modify/ copy of p was written against: the core's, or
\* the file telegram adds.
Original(p) == IF p = TelegramTs THEN AddFile("telegram", p) ELSE <<0, 0>>

\* The hunks of p that skill s changes.
ChangedHunks(s, p) == {i \in 1..2 : ModifyFile(s, p)[i] # Original(p)[i]}

\* C20: after a successful uninstall of a skill while others remain
\* applied, the files only that skill added are gone, the files it modified
\* have lost its change and kept the remaining skills' changes, the files
\* the remaining skills added are there, and applied_skills is the previous
\* list without the skill, in the previous order.
C20_UninstallRemovesOnlyThatSkill ==
    UninstalledOneOfSeveral
        => /\ \A p \in Range(Manifest(last.skill).adds) :
                 (\A i \in DOMAIN RemainingBefore : ~Touches(RemainingBefore[i].name, p))
                    => ~Exists(tree, p)
           /\ \A p \in Range(Manifest(last.skill).modifies) :
                 /\ \A h \in ChangedHunks(last.skill, p) :
                       Exists(tree, p) => tree[p][h] # ModifyFile(last.skill, p)[h]
                 /\ \A i \in DOMAIN RemainingBefore :
                       p \in Range(Manifest(RemainingBefore[i].name).modifies)
                          => /\ Exists(tree, p)
                             /\ \A h \in ChangedHunks(RemainingBefore[i].name, p) :
                                   tree[p][h] = ModifyFile(RemainingBefore[i].name, p)[h]
           /\ \A i \in DOMAIN RemainingBefore :
                 \A p \in Range(Manifest(RemainingBefore[i].name).adds) : Exists(tree, p)
           /\ Names(ledger.applied_skills) = Names(RemainingBefore)

\* telegram was uninstalled with discord still applied, both having changed
\* src/config.ts.
C20_UninstalledTelegramKeptDiscord ==
    /\ UninstalledOneOfSeveral
    /\ last.skill = "telegram"
    /\ Names(pre.ledger.applied_skills) = <<"telegram", "discord">>
    /\ Exists(pre.tree, TelegramTs)
    /\ pre.tree[ConfigTs] = <<1, 2>>

\* C21: after a successful rebase, flattening or onto a new base, the
\* ledger has rebased_at, no custom modification, the applied skills of
\* before in their order, and for each of them the hashes of the files of
\* the new working tree under the paths it recorded.
C21_LedgerAfterRebase ==
    (last.op = "rebase" /\ last.success)
        => /\ ledger.rebased_at
           /\ ledger.custom_modifications = <<>>
           /\ Names(ledger.applied_skills) = Names(pre.ledger.applied_skills)
           /\ \A i \in DOMAIN ledger.applied_skills :
                 /\ DOMAIN ledger.applied_skills[i].file_hashes
                       = {p \in DOMAIN pre.ledger.applied_skills[i].file_hashes : Exists(tree, p)}
                 /\ \A p \in DOMAIN ledger.applied_skills[i].file_hashes :
                       ledger.applied_skills[i].file_hashes[p] = compute_file_hash(tree[p])

\* A rebase succeeded on a project with two skills, a recorded custom
\* modification and recorded hashes that were not those of the files.
C21_RebasedCustomizedProject ==
    /\ last.op = "rebase"
    /\ last.success
    /\ pre.ledger.custom_modifications # <<>>
    /\ Len(ledger.applied_skills) = 2
    /\ \E i \in DOMAIN pre.ledger.applied_skills :
          \E p \in DOMAIN pre.ledger.applied_skills[i].file_hashes :
             pre.ledger.applied_skills[i].file_hashes[p] # compute_file_hash(tree[p])

\* The paths a flatten tracks: those of the applied skills' file_hashes and
\* the files under .g2/base/, as they were before the rebase.
TrackedBefore ==
    UNION {DOMAIN pre.ledger.applied_skills[i].file_hashes :
             i \in DOMAIN pre.ledger.applied_skills}
      \cup {p \in Paths : Exists(pre.base, p)}

Flattened == last.op = "rebase" /\ last.skill = "" /\ last.success

\* C22: after a successful rebase without a new base, .g2/base/ holds for
\* every tracked path the bytes of the working-tree file, and no copy of a
\* tracked path that has no file in the working tree.
C22_FlattenMakesBaseEqualTree ==
    Flattened
        => \A p \in TrackedBefore :
              IF Exists(tree, p) THEN base[p] = tree[p] ELSE ~Exists(base, p)

\* A flatten met a tracked file that .g2/base/ had no copy of, one whose
\* base copy differed, and one that was gone from the working tree.
C22_FlattenedAddedChangedAndGone ==
    /\ Flattened
    /\ \E p \in TrackedBefore : Exists(tree, p) /\ ~Exists(pre.base, p)
    /\ \E p \in TrackedBefore : Exists(tree, p) /\ Exists(pre.base, p) /\ pre.base[p] # tree[p]
    /\ \E p \in TrackedBefore : ~Exists(tree, p) /\ Exists(pre.base, p)

Without(names, s) == SelectSeq(names, LAMBDA n : n # s)

\* When the skill named s was last applied successfully: the index of that
\* apply in the history, or for a record the project started with, its
\* place among the start records, before every operation of the history.
LastApplied(s) ==
    IF \E i \in DOMAIN hist : Did(i, "apply", s)
       THEN CHOOSE i \in DOMAIN hist :
               Did(i, "apply", s) /\ \A j \in DOMAIN hist : Did(j, "apply", s) => j <= i
       ELSE (CHOOSE k \in DOMAIN start.ledger.applied_skills :
                start.ledger.applied_skills[k].name = s)
            - Len(start.ledger.applied_skills) - 1

EverApplied(s) ==
    \/ \E i \in DOMAIN hist : Did(i, "apply", s)
    \/ s \in AppliedNames(start.ledger)

\* C23: applied_skills never holds two records of one skill and is ordered
\* by the most recent successful application of each skill; a successful
\* apply drops the skill's previous record and appends the new one, a
\* successful uninstall removes the skill's record and leaves the others in
\* their order.
C23_LedgerOrderIsApplicationOrder ==
    /\ \A i, j \in DOMAIN ledger.applied_skills :
          i < j => /\ ledger.applied_skills[i].name # ledger.applied_skills[j].name
                   /\ EverApplied(ledger.applied_skills[i].name)
                   /\ EverApplied(ledger.applied_skills[j].name)
                   /\ LastApplied(ledger.applied_skills[i].name)
                         < LastApplied(ledger.applied_skills[j].name)
    /\ (last.op = "apply" /\ last.success)
          => Names(ledger.applied_skills)
                = Append(Without(Names(pre.ledger.applied_skills), last.skill), last.skill)
    /\ (last.op = "uninstall" /\ last.success)
          => /\ Names(ledger.applied_skills) = Without(Names(pre.ledger.applied_skills), last.skill)
             /\ Len(ledger.applied_skills) = Len(pre.ledger.applied_skills) - 1

\* A skill recorded first of two was applied again and is now the last
\* record.
C23_ReappliedMovedToEnd ==
    /\ last.op = "apply"
    /\ last.success
    /\ Len(pre.ledger.applied_skills) = 2
    /\ pre.ledger.applied_skills[1].name = last.skill
    /\ Names(ledger.applied_skills) = <<pre.ledger.applied_skills[2].name, last.skill>>

(***************************************************************************)
(* PART 7 -- state.yaml under concurrent write_state calls.  write_state   *)
(* writes the dump to the one path .g2/state.yaml.tmp and renames it onto  *)
(* .g2/state.yaml (state.py:46-48).  Path.write_text opens the path for    *)
(* writing, which truncates the file that is there or creates one, writes  *)
(* from offset 0 and closes; rename makes state.yaml name the temp file's  *)
(* inode and removes the temp name, and raises FileNotFoundError when the  *)
(* temp name is gone.  Blocks a longer, earlier write left beyond the end  *)
(* of a later, shorter one stay in the file.                               *)
(***************************************************************************)

\* The ledgers a reader may take for whole: the previous one and the dumps.
Complete(c) ==
    \/ c = PreviousLedger
    \/ \E w \in Writers, k \in 1..(MaxCalls + 1) : c = Dumped(w, k)

\* write(2) of the blocks "data" at offset 0 of a file holding "old".
WriteAtStart(old, data) ==
    [i \in 1..(IF Len(old) > Len(data) THEN Len(old) ELSE Len(data)) |->
        IF i <= Len(data) THEN data[i] ELSE old[i]]

\* state.py:47, open(tmp_path, "w"): truncate .g2/state.yaml.tmp, or create
\* it on a new inode.
OpenTmp(w) ==
    /\ wpc[w] = "idle"
    /\ wcalls[w] < MaxCalls
    /\ wcalls' = [wcalls EXCEPT ![w] = @ + 1]
    /\ LET ino == IF tmpYaml # NoInode THEN tmpYaml
                  ELSE Cardinality(DOMAIN inodes)
       IN  /\ inodes' = [i \in DOMAIN inodes \cup {ino} |-> IF i = ino THEN <<>> ELSE inodes[i]]
           /\ tmpYaml' = ino
           /\ fd' = [fd EXCEPT ![w] = ino]
    /\ wpc' = [wpc EXCEPT ![w] = "opened"]
    /\ UNCHANGED <<stateYaml, installed, seen>>
    /\ UNCHANGED <<lockVars, engineVars, concVars, cacheVars, coreVars, stepVars, pureVars, queueVars>>

\* state.py:47, the write and the close of write_text: the dump goes to the
\* inode the writer opened, whatever names it now.
WriteTmp(w) ==
    /\ wpc[w] = "opened"
    /\ inodes' = [inodes EXCEPT ![fd[w]] = WriteAtStart(@, Dumped(w, wcalls[w]))]
    /\ fd' = [fd EXCEPT ![w] = NoInode]
    /\ wpc' = [wpc EXCEPT ![w] = "written"]
    /\ UNCHANGED <<stateYaml, tmpYaml, wcalls, installed, seen>>
    /\ UNCHANGED <<lockVars, engineVars, concVars, cacheVars, coreVars, stepVars, pureVars, queueVars>>

\* state.py:48, tmp_path.rename(state_path); write_state returns, or raises
\* FileNotFoundError when another writer's rename took the temp name away.
RenameTmp(w) ==
    /\ wpc[w] = "written"
    /\ IF tmpYaml = NoInode
          THEN /\ wpc' = [wpc EXCEPT ![w] = "raised"]
               /\ UNCHANGED <<stateYaml, tmpYaml, installed>>
          ELSE /\ stateYaml' = tmpYaml
               /\ tmpYaml' = NoInode
               /\ installed' = [installed EXCEPT ![w] = inodes[tmpYaml]]
               /\ wpc' = [wpc EXCEPT ![w] = "returned"]
    /\ UNCHANGED <<inodes, fd, wcalls, seen>>
    /\ UNCHANGED <<lockVars, engineVars, concVars, cacheVars, coreVars, stepVars, pureVars, queueVars>>

\* The caller goes on after write_state returned or raised.
WriterGoesOn(w) ==
    /\ wpc[w] \in {"returned", "raised"}
    /\ wcalls[w] < MaxCalls
    /\ wpc' = [wpc EXCEPT ![w] = "idle"]
    /\ UNCHANGED <<inodes, stateYaml, tmpYaml, fd, wcalls, installed, seen>>
    /\ UNCHANGED <<lockVars, engineVars, concVars, cacheVars, coreVars, stepVars, pureVars, queueVars>>

\* state.py:19-25, read_state of a third process: state.yaml exists, and
\* read_text returns what its inode holds.
ReadState ==
    /\ seen' = inodes[stateYaml]
    /\ UNCHANGED <<inodes, stateYaml, tmpYaml, fd, wpc, wcalls, installed>>
    /\ UNCHANGED <<lockVars, engineVars, concVars, cacheVars, coreVars, stepVars, pureVars, queueVars>>

FileInit == FreshProject /\ LockAtRest /\ ConcAtRest /\ CacheAtRest /\ CoreAtRest /\ FileAtRest /\ StepAtRest /\ PureAtRest /\ QueueAtRest

FileNext ==
    \/ \E w \in Writers : OpenTmp(w)
    \/ \E w \in Writers : WriteTmp(w)
    \/ \E w \in Writers : RenameTmp(w)
    \/ \E w \in Writers : WriterGoesOn(w)
    \/ ReadState

SpecFile == FileInit /\ [][FileNext]_vars

\* C24: read_state never gets anything but a whole ledger from state.yaml,
\* the previous one or one of the written ones, and a write_state call that
\* returned has made state.yaml a whole ledger.
C24_ReadersSeeWholeLedgers ==
    /\ seen # NotRead => Complete(seen)
    /\ \A w \in Writers : wpc[w] = "returned" => Complete(installed[w])

\* read_state ran while one writer had the temp file open and the other had
\* returned from write_state.
C24_ReadDuringTwoWrites ==
    /\ seen # NotRead
    /\ \E w, v \in Writers : wpc[w] = "returned" /\ wpc[v] = "opened" /\ seen = installed[w]

\* customize.py is_customize_active
is_customize_active == customize

\* The step is a call of the operation op.
Called(op) == hist' = Append(hist, HistEntry(last')) /\ last'.op = op

CustomizeStep ==
    /\ (Called("start_customize") /\ is_customize_active)
          => /\ last'.raised
             /\ is_customize_active'
             /\ UNCHANGED <<pending, patches, tree, base, backup, ledger>>
    /\ (Called("start_customize") /\ ~is_customize_active)
          => /\ ~last'.raised
             /\ is_customize_active'
             /\ UNCHANGED <<patches, tree, base, backup, ledger>>
    /\ Called("abort_customize")
          => /\ ~last'.raised
             /\ ~is_customize_active'
             /\ UNCHANGED <<patches, tree, base, backup, ledger, resolutions>>
    /\ (Called("commit_customize") /\ is_customize_active /\ ~last'.raised)
          => ~is_customize_active'
    /\ (is_customize_active /\ ~is_customize_active')
          => Called("commit_customize") \/ Called("abort_customize")
    /\ (~is_customize_active /\ is_customize_active')
          => Called("start_customize")

\* C25: the session is active exactly while pending.yaml exists; a start
\* during a session raises and leaves pending.yaml and everything else as
\* they were; an abort removes pending.yaml and changes nothing else; a
\* session begins only by a start and ends only by a commit that returns or
\* by an abort.
C25_CustomizeSessionMachine == [][CustomizeStep]_vars

\* A second start was refused during a session that had begun on another
\* ledger, and the session's hashes are still those of its start.
C25_StartRefusedDuringSession ==
    /\ last.op = "start_customize"
    /\ last.raised
    /\ is_customize_active
    /\ pending # PendingHashes(ledger.applied_skills)
    /\ pending # EmptyHashes

\* A commit_customize that returned, called during a session, treated the
\* files "diffed" so: with no difference between any of them and its base
\* copy, pending.yaml is gone and nothing is recorded; otherwise the patch
\* file numbered one plus the count of the recorded modifications is
\* written, one record naming it is appended to the ledger, and
\* pending.yaml is gone.
CommitRecords(diffed) ==
    (Called("commit_customize") /\ is_customize_active /\ ~last'.raised)
        => /\ ~is_customize_active'
           /\ UNCHANGED <<tree, base, backup>>
           /\ IF \A p \in diffed : DiffText(base, p) = DiffText(tree, p)
                 THEN UNCHANGED <<ledger, patches>>
                 ELSE /\ patches' = patches \cup {Len(ledger.custom_modifications) + 1}
                      /\ Len(ledger'.custom_modifications) = Len(ledger.custom_modifications) + 1
                      /\ SubSeq(ledger'.custom_modifications, 1, Len(ledger.custom_modifications))
                            = ledger.custom_modifications
                      /\ ledger'.custom_modifications[Len(ledger'.custom_modifications)].patch_file
                            = Len(ledger.custom_modifications) + 1
                      /\ ledger'.applied_skills = ledger.applied_skills

\* The recorded modifications carry distinct sequence numbers.
DistinctNumbers(l) ==
    \A i, j \in DOMAIN l.custom_modifications :
        i # j => l.custom_modifications[i].patch_file # l.custom_modifications[j].patch_file

C27_FailuresAreReturned ==
    (last.op \in {"apply", "uninstall", "update", "rebase"} /\ ~last.success)
        => (~last.raised /\ last.error # "")

\* An apply failed on a port collision in docker-compose.yml after it had
\* taken the lock and the backup.
C27_ApplyFailedOnPortCollision ==
    /\ last.op = "apply"
    /\ ~last.success
    /\ last.locked
    /\ last.error = "port-collision"
    /\ backup = EmptyBackup

(***************************************************************************)
(* PART 8 -- apply_skill step by step (apply.py:114-391).  After the       *)
(* checks, the lock and the backup, the body runs its blocks in the order  *)
(* they stand in: file operations (137-148), copies from add/ (150-163),   *)
(* merges of the modifies (165-244), structured operations (262-281),      *)
(* post_apply commands (283-313), the ledger write (315-333), the test     *)
(* command (335-368).  A block that fails ends the call the way            *)
(* apply_skill above describes.                                            *)
(***************************************************************************)

\* The blocks with the test command run before the ledger write.
ApplyOrderTestFirst ==
    <<"file_ops", "adds", "merge", "structured", "post_apply", "test", "ledger">>

ApplyOrder == <<"file_ops", "adds", "merge", "structured", "post_apply", "ledger", "test">>

\* The skills applied step by step.
StepSkills == {"telegram", "discord", "slack", "mover", "redis", "cleaner"}

\* The block after block x.
NextStep(order, x) ==
    LET i == CHOOSE k \in DOMAIN order : order[k] = x
    IN IF i = Len(order) THEN "idle" ELSE order[i + 1]

\* What block x of the apply of s makes of the tree fs, the base bs and the
\* ledger l, and whether the call goes on after it.
StepEffect(x, s, fs, bs, l, env) ==
    LET m == Manifest(s)
        same == [tree |-> fs, base |-> bs, ledger |-> l, ok |-> TRUE]
    IN
    CASE x = "file_ops" ->
           LET ops == execute_file_ops(m.file_ops, fs)
           IN [same EXCEPT !.tree = ops.tree, !.ok = ops.success]
      [] x = "adds" -> [same EXCEPT !.tree = CopyAdds(s, m.adds, fs)]
      [] x = "merge" ->
           LET mg == MergeModifies(s, m.modifies, fs, bs, <<>>)
           IN [same EXCEPT !.tree = mg.tree, !.base = mg.base, !.ok = mg.conflicts = <<>>]
      [] x = "structured" ->
           LET t3 == IF m.env_additions # <<>>
                        THEN [fs EXCEPT ![EnvExample] = merge_env_additions(@, m.env_additions)]
                        ELSE fs
               dk == merge_docker_compose_services(t3[DockerCompose], m.docker_compose_services)
           IN IF m.docker_compose_services = {} THEN [same EXCEPT !.tree = t3]
              ELSE [same EXCEPT !.tree = [t3 EXCEPT ![DockerCompose] = dk.content],
                                !.ok = ~dk.raised]
      [] x = "post_apply" -> [same EXCEPT !.ok = ~m.post_apply \/ env.postOk]
      [] x = "ledger" ->
           LET recorded == {p \in Range(m.adds \o m.modifies) : Exists(fs, p)}
           IN [same EXCEPT !.ledger =
                  record_skill_application(l, s, [p \in recorded |-> compute_file_hash(fs[p])],
                     [test |-> m.test, env_additions |-> m.env_additions,
                      docker_compose_services |-> m.docker_compose_services])]
      [] x = "test" -> [same EXCEPT !.ok = ~m.test \/ env.testOk]

\* The call ends with the outcome o; "pre" stays the project the call found.
EndApply(o) ==
    /\ tree' = o.tree
    /\ base' = o.base
    /\ backup' = o.backup
    /\ ledger' = o.ledger
    /\ last' = o.res
    /\ hist' = Append(hist, HistEntry(o.res))
    /\ apc' = "idle"

\* apply.py:44-134: the checks, acquire_lock and create_backup.  A call the
\* checks refuse, or whose backup raises, ends here.
BeginApply(s) ==
    /\ apc = "idle"
    /\ Len(hist) < MaxOps
    /\ \E postOk \in (IF Manifest(s).post_apply THEN BOOLEAN ELSE {TRUE}) :
       \E testOk \in (IF Manifest(s).test THEN BOOLEAN ELSE {TRUE}) :
          /\ askill' = s
          /\ aenv' = [postOk |-> postOk, testOk |-> testOk]
          /\ started' = <<>>
          /\ finished' = 0
          /\ pre' = OnDisk
          /\ UNCHANGED replayed
          /\ IF ~apply_skill(OnDisk, s, postOk, testOk, {}).res.locked
                \/ create_backup(backup, tree, ApplyBackupPaths(Manifest(s))).raised
                THEN EndApply(apply_skill(OnDisk, s, postOk, testOk, {}))
                ELSE /\ backup' = create_backup(backup, tree, ApplyBackupPaths(Manifest(s))).bk
                     /\ apc' = ApplyOrder[1]
                     /\ UNCHANGED <<tree, base, ledger, last, hist>>
    /\ UNCHANGED <<lockVars, concVars, cacheVars, coreVars, fileVars, pureVars, queueVars>>

\* The block the call stands at runs.  When it fails, or when it was the
\* last one, the call ends.
ApplyStep ==
    /\ apc # "idle"
    /\ started' = Append(started, apc)
    /\ finished' = IF StepEffect(apc, askill, tree, base, ledger, aenv).ok
                      THEN finished + 1 ELSE finished
    /\ IF StepEffect(apc, askill, tree, base, ledger, aenv).ok
          /\ NextStep(ApplyOrder, apc) # "idle"
          THEN /\ tree' = StepEffect(apc, askill, tree, base, ledger, aenv).tree
               /\ base' = StepEffect(apc, askill, tree, base, ledger, aenv).base
               /\ ledger' = StepEffect(apc, askill, tree, base, ledger, aenv).ledger
               /\ apc' = NextStep(ApplyOrder, apc)
               /\ UNCHANGED <<backup, last, hist>>
          ELSE EndApply(apply_skill(pre, askill, aenv.postOk, aenv.testOk, {}))
    /\ UNCHANGED <<pre, askill, aenv, replayed>>
    /\ UNCHANGED <<lockVars, concVars, cacheVars, coreVars, fileVars, pureVars, queueVars>>

\* A project set up on a core that ships docker-compose.yml with the cache
\* service.
ComposeDisk ==
    [FreshDisk EXCEPT !.tree[DockerCompose] = <<CacheService, 0>>,
                      !.base[DockerCompose] = <<CacheService, 0>>]

StepInit ==
    /\ LockAtRest
    /\ CacheAtRest
    /\ CoreAtRest
    /\ FileAtRest
    /\ StepAtRest /\ PureAtRest /\ QueueAtRest
    /\ start \in CoreStartDisks \cup {ComposeDisk}
    /\ tree = start.tree
    /\ base = start.base
    /\ backup = start.backup
    /\ ledger = start.ledger
    /\ pre = start
    /\ last = NoRes
    /\ hist = <<>>
    /\ job = [p \in Procs |-> NoJob]

StepNext ==
    \/ \E s \in StepSkills : BeginApply(s)
    \/ ApplyStep

SpecApply == StepInit /\ [][StepNext]_vars

\* The blocks of a step-by-step apply leave what apply_skill describes: the
\* block that ended the call is the one apply_skill's error names, and
\* before the last block the tree, the base and the ledger are those of
\* apply_skill's successful outcome.
StepsAgreeWithApply ==
    /\ (apc = "idle" /\ started # <<>> /\ ~last.success)
          => last.error = (CASE started[Len(started)] = "file_ops" -> "file-ops"
                             [] started[Len(started)] = "merge" -> "merge-conflict"
                             [] started[Len(started)] = "structured" -> "port-collision"
                             [] started[Len(started)] = "post_apply" -> "post-apply"
                             [] started[Len(started)] = "test" -> "test"
                             [] OTHER -> "none")
    /\ (apc = "idle" /\ started # <<>> /\ last.success) => started = ApplyOrder
    /\ (apc = "test" /\ apply_skill(pre, askill, TRUE, TRUE, {}).res.success)
          => /\ tree = apply_skill(pre, askill, TRUE, TRUE, {}).tree
             /\ base = apply_skill(pre, askill, TRUE, TRUE, {}).base
             /\ ledger = apply_skill(pre, askill, TRUE, TRUE, {}).ledger

IsPrefix(a, b) == Len(a) <= Len(b) /\ a = SubSeq(b, 1, Len(a))

\* C28: within an apply the blocks run in the order file_ops, adds,
\* modifies-merge, structured-merge, post_apply, ledger-write, test; a
\* block starts only when every block before it has finished successfully;
\* the ledger is not written before post_apply has succeeded, and the test
\* command does not run before the skill's record is in the ledger.
C28_ApplyStepOrder ==
    /\ IsPrefix(started,
                <<"file_ops", "adds", "merge", "structured", "post_apply", "ledger", "test">>)
    /\ Len(started) <= finished + 1
    /\ finished <= Len(started)
    /\ (apc # "idle" /\ ledger # pre.ledger)
          => (finished >= 5 /\ started[5] = "post_apply")
    /\ apc = "test"
          => /\ ledger.applied_skills # <<>>
             /\ ledger.applied_skills[Len(ledger.applied_skills)].name = askill
    /\ (started # <<>> /\ started[Len(started)] = "test")
          => (finished >= 6 /\ started[6] = "ledger")

\* An apply of a skill with post_apply and test commands went through all
\* seven blocks and succeeded.
C28_AppliedThroughAllSteps ==
    /\ apc = "idle"
    /\ started = ApplyOrder
    /\ finished = 7
    /\ last.op = "apply"
    /\ last.success
    /\ Manifest(askill).post_apply
    /\ Manifest(askill).test
    /\ askill \notin AppliedNames(pre.ledger)

(***************************************************************************)
(* PART 9 -- replay_skills called on its own (replay.py:69-285), with any  *)
(* list of up to three skills and on projects in several states.           *)
(***************************************************************************)

\* How many replay_skills calls a run makes.
MaxReplays == 1

ReplaySkillSet == {"telegram", "slack", "discord", "notify", "redis"}

\* The lists replay_skills is called with.
ReplayLists ==
    {<<s1>> : s1 \in ReplaySkillSet}
    \cup {<<s1, s2>> : s1 \in ReplaySkillSet, s2 \in ReplaySkillSet}
    \cup {<<s1, s2, s3>> : s1 \in {"telegram", "notify"}, s2 \in ReplaySkillSet,
                           s3 \in ReplaySkillSet}

\* One call of replay_skills(skills) on the project as it is.
ReplaySkills(skills) ==
    /\ replayed.n < MaxReplays
    /\ tree' = replay_skills(skills, tree, base).tree
    /\ base' = replay_skills(skills, tree, base).base
    /\ pre' = OnDisk
    /\ last' = Res("replay", "", replay_skills(skills, tree, base).success, FALSE, FALSE, "",
                   {}, FALSE)
    /\ replayed' = [skills |-> skills,
                    per_skill |-> replay_skills(skills, tree, base).per_skill,
                    env |-> replay_skills(skills, tree, base).env,
                    npm |-> replay_skills(skills, tree, base).npm,
                    services |-> replay_skills(skills, tree, base).services,
                    n |-> replayed.n + 1]
    /\ UNCHANGED <<backup, ledger, hist, apc, askill, aenv, started, finished>>
    /\ UNCHANGED <<lockVars, concVars, cacheVars, coreVars, fileVars, pureVars, queueVars>>

ReplayNext == \E skills \in ReplayLists : ReplaySkills(skills)

SpecReplay == StepInit /\ [][ReplayNext]_vars

\* The files the manifests of the skills sk[i], i in idx, add or modify.
FilesOf(sk, idx) ==
    UNION {Range(Manifest(sk[i]).adds) \cup Range(Manifest(sk[i]).modifies) : i \in idx}

\* How many "# Added by skill" lines the file holds.
HeaderCount(content) ==
    IF content = NoFile THEN 0 ELSE Cardinality({i \in DOMAIN content : content[i] = EnvHeader})

RECURSIVE Dedup(_)
Dedup(seq) ==
    IF seq = <<>> THEN <<>>
    ELSE <<Head(seq)>> \o SelectSeq(Dedup(Tail(seq)), LAMBDA v : v # Head(seq))

\* The env additions of the manifests of sk, one list after the other.
RECURSIVE ManifestEnv(_)
ManifestEnv(sk) ==
    IF sk = <<>> THEN <<>> ELSE Manifest(Head(sk)).env_additions \o ManifestEnv(Tail(sk))

\* The last skill of sk whose dict (given by Decl) has the key k.
LastDeclaring(sk, Decl(_), k) ==
    sk[CHOOSE i \in DOMAIN sk :
          /\ k \in DOMAIN Decl(sk[i])
          /\ \A j \in DOMAIN sk : k \in DOMAIN Decl(sk[j]) => j <= i]

\* The lines of the env file that name a variable.
EnvVars(content) ==
    IF content = NoFile THEN <<>> ELSE SelectSeq(content, LAMBDA v : v # EnvHeader)

\* C30: a successful replay collects, for each dependency and each service,
\* the value of the last skill of the list that declares it, and for the
\* env additions the order-preserving union of the skills' lists: of the
\* variables the env file did not hold, each is appended once, in the order
\* of first occurrence.
C30_StructuredAggregation ==
    (last.op = "replay" /\ last.success) =>
        /\ DOMAIN replayed.npm = UNION {DOMAIN NpmDeps(replayed.skills[i]) : i \in DOMAIN replayed.skills}
        /\ \A k \in DOMAIN replayed.npm :
              replayed.npm[k] = NpmDeps(LastDeclaring(replayed.skills, NpmDeps, k))[k]
        /\ DOMAIN replayed.services
              = UNION {DOMAIN ServiceDefs(replayed.skills[i]) : i \in DOMAIN replayed.skills}
        /\ \A k \in DOMAIN replayed.services :
              replayed.services[k]
                 = ServiceDefs(LastDeclaring(replayed.skills, ServiceDefs, k))[k]
        /\ EnvVars(tree[EnvExample])
              = EnvVars(pre.tree[EnvExample])
                   \o SelectSeq(Dedup(ManifestEnv(replayed.skills)),
                                LAMBDA v : v \notin Range(EnvVars(pre.tree[EnvExample])))

\* A replay of telegram and notify succeeded on a project whose env file
\* held none of their variables: both declare the dependency grammy and
\* both name the variable 1.
C30_ReplayedTwoSkillsNamingOneVariable ==
    /\ last.op = "replay"
    /\ last.success
    /\ replayed.skills = <<"telegram", "notify">>
    /\ replayed.npm["grammy"] = 2
    /\ EnvVars(pre.tree[EnvExample]) = <<>>

(***************************************************************************)
(* PART 10 -- functions of the engine called on their own, on arguments    *)
(* drawn from bounded sets: fin holds the arguments, fout what the calls   *)
(* returned or left in the file, one entry per call.                       *)
(***************************************************************************)

\* A version part is the string of its digits, most significant first.
Parts == {<<0>>, <<1>>, <<2>>, <<9>>, <<1, 0>>}

\* int(part)
RECURSIVE ToInt(_)
ToInt(digits) ==
    IF digits = <<>> THEN 0
    ELSE 10 * ToInt(SubSeq(digits, 1, Len(digits) - 1)) + digits[Len(digits)]

\* The npm ranges merged: a prefix and the parts its version splits into at
\* the dots.
Ranges ==
    {[prefix |-> pf, parts |-> <<ma, mi>>] :
        pf \in {"^", "~", ""}, ma \in {<<1>>, <<2>>}, mi \in {<<0>>, <<9>>, <<1, 0>>}}
    \cup {[prefix |-> pf, parts |-> <<ma, mi, pa>>] :
            pf \in {"^", "~"}, ma \in {<<1>>, <<2>>}, mi \in {<<9>>, <<1, 0>>},
            pa \in {<<0>>, <<2>>}}

Sign(n) == IF n > 0 THEN 1 ELSE IF n < 0 THEN -1 ELSE 0

\* The parts compared as strings, character by character.
RECURSIVE StrCompare(_, _)
StrCompare(x, y) ==
    IF x = <<>> /\ y = <<>> THEN 0
    ELSE IF x = <<>> THEN -1
    ELSE IF y = <<>> THEN 1
    ELSE IF Head(x) # Head(y) THEN Head(x) - Head(y)
    ELSE StrCompare(Tail(x), Tail(y))

\* _compare_version_parts comparing the parts as strings.
RECURSIVE compare_version_parts_str(_, _)
compare_version_parts_str(x, y) ==
    IF x = <<>> /\ y = <<>> THEN 0
    ELSE LET x_part == IF x = <<>> THEN <<0>> ELSE Head(x)
             y_part == IF y = <<>> THEN <<0>> ELSE Head(y)
         IN IF x_part # y_part THEN StrCompare(x_part, y_part)
            ELSE compare_version_parts_str(IF x = <<>> THEN x ELSE Tail(x),
                                           IF y = <<>> THEN y ELSE Tail(y))

\* structured.py:16-24 _compare_version_parts
RECURSIVE compare_version_parts(_, _)
compare_version_parts(x, y) ==
    IF x = <<>> /\ y = <<>> THEN 0
    ELSE LET x_num == IF x = <<>> THEN 0 ELSE ToInt(Head(x))
             y_num == IF y = <<>> THEN 0 ELSE ToInt(Head(y))
         IN IF x_num # y_num THEN x_num - y_num
            ELSE compare_version_parts(IF x = <<>> THEN x ELSE Tail(x),
                                       IF y = <<>> THEN y ELSE Tail(y))

\* structured.py:27-58 are_ranges_compatible
are_ranges_compatible(existing, requested) ==
    IF existing = requested THEN [compatible |-> TRUE, resolved |-> existing]
    ELSE IF existing.prefix = "^" /\ requested.prefix = "^"
       THEN IF existing.parts[1] # requested.parts[1]
               THEN [compatible |-> FALSE, resolved |-> existing]
               ELSE [compatible |-> TRUE,
                     resolved |-> IF compare_version_parts(existing.parts, requested.parts) >= 0
                                     THEN existing ELSE requested]
    ELSE IF existing.prefix = "~" /\ requested.prefix = "~"
       THEN IF existing.parts[1] # requested.parts[1]
                 \/ (Len(existing.parts) > 1 /\ Len(requested.parts) > 1
                     /\ existing.parts[2] # requested.parts[2])
               THEN [compatible |-> FALSE, resolved |-> existing]
               ELSE [compatible |-> TRUE,
                     resolved |-> IF compare_version_parts(existing.parts, requested.parts) >= 0
                                     THEN existing ELSE requested]
    ELSE [compatible |-> FALSE, resolved |-> existing]

\* No devDependencies key in package.json.
NoDev == [k \in {"-"} |-> 0]

\* package.json: its dependencies, its devDependencies, and whether the
\* keys of both stand in sorted order.
PackageFile(deps, dev, sorted) == [dependencies |-> deps, devDependencies |-> dev, sorted |-> sorted]

\* structured.py:61-94 merge_npm_dependencies, new_deps being the pairs
\* <<name, version>> in the order of the dict; the file is written only
\* after the loop.
RECURSIVE MergeDeps(_, _, _)
MergeDeps(dependencies, dev, new_deps) ==
    IF new_deps = <<>> THEN [dependencies |-> dependencies, raised |-> FALSE]
    ELSE LET name == Head(new_deps)[1]
             version == Head(new_deps)[2]
             has == name \in DOMAIN dependencies
             inDev == ~has /\ dev # NoDev /\ name \in DOMAIN dev
             existing == IF has THEN dependencies[name] ELSE dev[name]
         IN IF (has \/ inDev) /\ existing # version
               THEN IF ~are_ranges_compatible(existing, version).compatible
                       THEN [dependencies |-> dependencies, raised |-> TRUE]
                       ELSE MergeDeps(dict_update(dependencies,
                                         [k \in {name} |->
                                            are_ranges_compatible(existing, version).resolved]),
                                      dev, Tail(new_deps))
               ELSE MergeDeps(dict_update(dependencies, [k \in {name} |-> version]),
                              dev, Tail(new_deps))

merge_npm_dependencies(pkg, new_deps) ==
    IF MergeDeps(pkg.dependencies, pkg.devDependencies, new_deps).raised
       THEN [pkg |-> pkg, raised |-> TRUE]
       ELSE [pkg |-> PackageFile(MergeDeps(pkg.dependencies, pkg.devDependencies,
                                           new_deps).dependencies,
                                 pkg.devDependencies, TRUE),
             raised |-> FALSE]

\* The file the i-th call found.
FileBefore(i) == IF i = 1 THEN fin.file ELSE fout[i - 1].file

LibRange == [prefix |-> "^", parts |-> <<<<1>>, <<0>>>>]

\* package.json with "dep" under dependencies, under devDependencies or
\* nowhere, and the dependencies a skill declares: "dep", alone or with
\* "lib" before or after it.
NpmInputs ==
    {[file |-> PackageFile(deps, dev, sorted), args |-> new_deps] :
        deps \in {[k \in {} |-> LibRange], [k \in {"lib"} |-> LibRange]}
                 \cup {[k \in {"dep"} |-> r] : r \in Ranges},
        dev \in {NoDev, [k \in {"dep"} |-> LibRange]},
        sorted \in BOOLEAN,
        new_deps \in {<<<<"dep", r>>>> : r \in Ranges}
                     \cup {<<<<"lib", [LibRange EXCEPT !.parts[2] = <<9>>]>>, <<"dep", r>>>> :
                             r \in Ranges}}

NpmInit ==
    /\ FreshProject /\ LockAtRest /\ ConcAtRest /\ CacheAtRest /\ CoreAtRest /\ FileAtRest
    /\ StepAtRest /\ QueueAtRest
    /\ fin \in NpmInputs
    /\ fout = <<>>

\* merge_npm_dependencies(package.json, new_deps), called again with the
\* same dependencies on the file the call before left.
MergeNpm ==
    /\ Len(fout) < MaxCalls
    /\ fout' = Append(fout,
                 [file |-> merge_npm_dependencies(FileBefore(Len(fout) + 1), fin.args).pkg,
                  raised |-> merge_npm_dependencies(FileBefore(Len(fout) + 1), fin.args).raised])
    /\ UNCHANGED fin
    /\ UNCHANGED <<lockVars, engineVars, concVars, cacheVars, coreVars, fileVars, stepVars, queueVars>>

SpecNpm == NpmInit /\ [][MergeNpm]_vars

\* The version of a range as three numbers, missing parts being zero.
VersionOf(r) ==
    [i \in 1..3 |-> IF i <= Len(r.parts) THEN ToInt(r.parts[i]) ELSE 0]

\* v is at least w, number by number from the left.
AtLeast(v, w) ==
    \/ v = w
    \/ \E i \in 1..3 : v[i] > w[i] /\ \A j \in 1..(i - 1) : v[j] = w[j]

\* The range requested for "dep".
Requested == fin.args[Len(fin.args)][2]

\* C31: a caret range merged into an identical caret range or one of the
\* same major leaves the numerically higher of the two; merged into a caret
\* range of another major the merge fails and the file is as before; the
\* same dependencies merged a second time leave the file as the first merge
\* left it.
C31_CaretMergeTakesHigher ==
    \A i \in DOMAIN fout :
        /\ ("dep" \in DOMAIN FileBefore(i).dependencies
            /\ FileBefore(i).dependencies["dep"].prefix = "^" /\ Requested.prefix = "^")
              => IF VersionOf(FileBefore(i).dependencies["dep"])[1] = VersionOf(Requested)[1]
                    THEN /\ ~fout[i].raised
                         /\ fout[i].file.dependencies["dep"]
                               \in {FileBefore(i).dependencies["dep"], Requested}
                         /\ AtLeast(VersionOf(fout[i].file.dependencies["dep"]),
                                    VersionOf(FileBefore(i).dependencies["dep"]))
                         /\ AtLeast(VersionOf(fout[i].file.dependencies["dep"]),
                                    VersionOf(Requested))
                    ELSE /\ fout[i].raised
                         /\ fout[i].file = FileBefore(i)
        /\ (i > 1 /\ ~fout[i - 1].raised)
              => (~fout[i].raised /\ fout[i].file = fout[i - 1].file)

\* ^1.10.0 was merged into a file holding ^1.9.0, twice: the file holds
\* ^1.10.0.
C31_MergedOneTenIntoOneNine ==
    /\ Len(fout) = 2
    /\ fin.file.dependencies = [k \in {"dep"} |-> [prefix |-> "^", parts |-> <<<<1>>, <<9>>, <<0>>>>]]
    /\ Requested = [prefix |-> "^", parts |-> <<<<1>>, <<1, 0>>, <<0>>>>]
    /\ fout[2].file.dependencies["dep"] = Requested

\* A port mapping is the list of the parts between its colons: <<8080>> is
\* "8080", <<8080, 80>> is "8080:80".
PortMappings == {<<8080>>, <<8080, 80>>, <<8080, 3000>>, <<9090, 3000>>, <<9090>>}

\* The ports lists of a service: no entry, one or two.
PortLists ==
    {<<>>} \cup {<<p>> : p \in PortMappings}
           \cup {<<p, q>> : p \in {<<8080>>, <<9090, 3000>>}, q \in PortMappings}

NoPort == -1

\* structured.py:125-130 _extract_host_port
extract_host_port(port_mapping) ==
    IF Len(port_mapping) >= 2 THEN port_mapping[1] ELSE NoPort

\* The host ports of a ports list, as the loops at structured.py:148-155
\* and 163-170 collect them.
HostPorts(ports) ==
    {extract_host_port(ports[i]) : i \in DOMAIN ports} \ {NoPort}

\* structured.py:157-173: the new services in the order of the dict, each a
\* pair <<name, ports>>; used_ports grows by the ports of the services
\* added, a port within one ports list included.
RECURSIVE AddPorts(_, _)
AddPorts(used_ports, ports) ==
    IF ports = <<>> THEN [used |-> used_ports, raised |-> FALSE]
    ELSE IF extract_host_port(Head(ports)) # NoPort
            /\ extract_host_port(Head(ports)) \in used_ports
       THEN [used |-> used_ports, raised |-> TRUE]
       ELSE AddPorts(used_ports \cup ({extract_host_port(Head(ports))} \ {NoPort}),
                     Tail(ports))

RECURSIVE AddServices(_, _, _)
AddServices(existing_services, used_ports, services) ==
    IF services = <<>> THEN [services |-> existing_services, raised |-> FALSE]
    ELSE IF Head(services)[1] \in DOMAIN existing_services
       THEN AddServices(existing_services, used_ports, Tail(services))
    ELSE IF AddPorts(used_ports, Head(services)[2]).raised
       THEN [services |-> existing_services, raised |-> TRUE]
       ELSE AddServices(dict_update(existing_services,
                            [k \in {Head(services)[1]} |-> Head(services)[2]]),
                        AddPorts(used_ports, Head(services)[2]).used,
                        Tail(services))

\* structured.py:133-175 merge_docker_compose_services on a compose file
\* given as the ports list of each of its services; the file is written
\* only when nothing was raised.
merge_compose_services(compose, services) ==
    IF AddServices(compose, UNION {HostPorts(compose[n]) : n \in DOMAIN compose},
                   services).raised
       THEN [file |-> compose, raised |-> TRUE]
       ELSE [file |-> AddServices(compose,
                          UNION {HostPorts(compose[n]) : n \in DOMAIN compose},
                          services).services,
             raised |-> FALSE]

\* A compose file with the service "web", and the services of a skill:
\* "api", alone or after "web" or before "db".
ComposeInputs ==
    {[file |-> [k \in {"web"} |-> w], args |-> new] :
        w \in PortLists,
        new \in {<<<<"api", p>>>> : p \in PortLists}
                \cup {<<<<"web", <<<<8080, 80>>>>>>, <<"api", p>>>> : p \in PortLists}
                \cup {<<<<"api", p>>, <<"db", <<<<9090, 3000>>>>>>>> : p \in PortLists}}

ComposeInit ==
    /\ FreshProject /\ LockAtRest /\ ConcAtRest /\ CacheAtRest /\ CoreAtRest /\ FileAtRest
    /\ StepAtRest /\ QueueAtRest
    /\ fin \in ComposeInputs
    /\ fout = <<>>

\* merge_docker_compose_services(docker-compose.yml, services), called again
\* with the same services on the file the call before left.
MergeCompose ==
    /\ Len(fout) < MaxCalls
    /\ fout' = Append(fout, merge_compose_services(FileBefore(Len(fout) + 1), fin.args))
    /\ UNCHANGED fin
    /\ UNCHANGED <<lockVars, engineVars, concVars, cacheVars, coreVars, fileVars, stepVars, queueVars>>

SpecCompose == ComposeInit /\ [][MergeCompose]_vars

\* The host port of a mapping in either form: the part before the colon, or
\* the port itself when there is no colon.
HostPortOfEitherForm(port_mapping) == port_mapping[1]

\* C32: whenever a service that the file does not define yet declares, in
\* the HOST:CONTAINER or in the bare PORT form, a host port that a service
\* of the file uses, the merge raises and the file is as before.
C32_CollisionAbortsInEitherForm ==
    \A i \in DOMAIN fout :
        (\E j \in DOMAIN fin.args :
            /\ fin.args[j][1] \notin DOMAIN FileBefore(i)
            /\ \E k \in DOMAIN fin.args[j][2], n \in DOMAIN FileBefore(i) :
                  \E l \in DOMAIN FileBefore(i)[n] :
                     HostPortOfEitherForm(fin.args[j][2][k])
                        = HostPortOfEitherForm(FileBefore(i)[n][l]))
          => (fout[i].raised /\ fout[i].file = FileBefore(i))

\* "web" publishes "8080"; a skill's "api" with "8080:3000" was merged in
\* and no error was raised.
C32_BarePortNotSeen ==
    /\ Len(fout) = 1
    /\ fin.file["web"] = <<<<8080>>>>
    /\ fin.args = <<<<"api", <<<<8080, 3000>>>>>>>>
    /\ ~fout[1].raised
    /\ "api" \in DOMAIN fout[1].file

\* "web" publishes "8080:80"; the merge of a skill's "api" with "8080:3000"
\* raised and the file is as it was.
C32_CollisionRaised ==
    /\ Len(fout) = 1
    /\ fin.file["web"] = <<<<8080, 80>>>>
    /\ fin.args = <<<<"api", <<<<8080, 3000>>>>>>>>
    /\ fout[1].raised
    /\ fout[1].file = fin.file

\* .env.example: missing, or up to two lines, each the declaration of a
\* variable or a comment; no variable declared twice.
EnvFiles ==
    {NoFile, <<EnvHeader>>} \cup {<<v>> : v \in 1..2}
    \cup ({<<v, w>> : v \in 0..2, w \in 1..2} \ {<<v, v>> : v \in 1..2})

\* The env_additions of a skill: up to three names out of three.
EnvLists ==
    {<<>>} \cup {<<v>> : v \in 1..3} \cup {<<v, w>> : v \in 1..3, w \in 1..3}
    \cup {<<v, w, x>> : v \in 1..3, w \in 1..3, x \in 1..3}

EnvInit ==
    /\ FreshProject /\ LockAtRest /\ ConcAtRest /\ CacheAtRest /\ CoreAtRest /\ FileAtRest
    /\ StepAtRest /\ QueueAtRest
    /\ fin \in [file : EnvFiles, args : EnvLists]
    /\ fout = <<>>

\* merge_env_additions(.env.example, additions), called again with the same
\* additions on the file the call before left.
MergeEnv ==
    /\ Len(fout) < MaxCalls
    /\ fout' = Append(fout, [file |-> merge_env_additions(FileBefore(Len(fout) + 1), fin.args),
                             raised |-> FALSE])
    /\ UNCHANGED fin
    /\ UNCHANGED <<lockVars, engineVars, concVars, cacheVars, coreVars, fileVars, stepVars, queueVars>>

SpecEnv == EnvInit /\ [][MergeEnv]_vars

\* The lines of the file that declare v.
Declarations(content, v) ==
    IF content = NoFile THEN {} ELSE {i \in DOMAIN content : content[i] = v}

\* C33: a merge of names the file declares already leaves the file as it
\* was; after a merge of any list, one naming a variable twice included, the
\* file declares each variable of the list exactly once; a second merge of
\* the same list leaves the file as the first left it.
C33_EnvMergeIdempotent ==
    \A i \in DOMAIN fout :
        /\ (\A k \in DOMAIN fin.args : Declarations(FileBefore(i), fin.args[k]) # {})
              => fout[i].file = FileBefore(i)
        /\ \A k \in DOMAIN fin.args :
              Cardinality(Declarations(fout[i].file, fin.args[k])) = 1
        /\ i > 1 => fout[i].file = fout[i - 1].file

\* The list named one variable twice and the file did not declare it: after
\* the merge the file declares it twice.
C33_AddedTwice ==
    /\ Len(fout) = 1
    /\ fin.file = <<1>>
    /\ fin.args = <<2, 2>>
    /\ Cardinality(Declarations(fout[1].file, 2)) = 2

\* What holds of the merge: names declared already change nothing, every
\* name of the list is declared afterwards, and the second merge changes
\* nothing.
C33_EnvMergeSecondIsNoOp ==
    \A i \in DOMAIN fout :
        /\ (\A k \in DOMAIN fin.args : Declarations(FileBefore(i), fin.args[k]) # {})
              => fout[i].file = FileBefore(i)
        /\ \A k \in DOMAIN fin.args : Declarations(fout[i].file, fin.args[k]) # {}
        /\ i > 1 => fout[i].file = fout[i - 1].file

\* Versions of one to three numeric parts, each part the string of its
\* digits.
SemVers ==
    {<<ma>> : ma \in {<<0>>, <<1>>}}
    \cup {<<ma, mi>> : ma \in {<<0>>, <<1>>}, mi \in {<<0>>, <<9>>, <<1, 0>>}}
    \cup {<<ma, mi, pa>> : ma \in {<<0>>, <<1>>}, mi \in {<<0>>, <<9>>, <<1, 0>>},
                           pa \in {<<0>>, <<9>>, <<1, 0>>}}

\* compare_semver comparing the parts as the strings they are.
compare_semver_str(x, y) == compare_version_parts_str(x, y)

\* state.py:116-131 compare_semver
compare_semver(x, y) ==
    LET n == IF Len(x) > Len(y) THEN Len(x) ELSE Len(y)
        val_a(i) == IF i <= Len(x) THEN ToInt(x[i]) ELSE 0
        val_b(i) == IF i <= Len(y) THEN ToInt(y[i]) ELSE 0
        differ == {i \in 1..n : val_a(i) - val_b(i) # 0}
    IN IF differ = {} THEN 0
       ELSE val_a(CHOOSE i \in differ : \A j \in differ : i <= j)
              - val_b(CHOOSE i \in differ : \A j \in differ : i <= j)

SemverInit ==
    /\ FreshProject /\ LockAtRest /\ ConcAtRest /\ CacheAtRest /\ CoreAtRest /\ FileAtRest
    /\ StepAtRest /\ QueueAtRest
    /\ fin \in SemVers \X SemVers \X SemVers
    /\ fout = <<>>

\* compare_semver called on each pair of the three versions.
CompareVersions ==
    /\ fout = <<>>
    /\ fout' = <<[ab |-> compare_semver(fin[1], fin[2]),
                  ba |-> compare_semver(fin[2], fin[1]),
                  bc |-> compare_semver(fin[2], fin[3]),
                  ac |-> compare_semver(fin[1], fin[3])]>>
    /\ UNCHANGED fin
    /\ UNCHANGED <<lockVars, engineVars, concVars, cacheVars, coreVars, fileVars, stepVars, queueVars>>

SpecSemver == SemverInit /\ [][CompareVersions]_vars

\* The three numbers of a version, missing ones being zero.
Padded(v) == VersionOf([parts |-> v])

\* C34: compare_semver orders versions as their three numbers compare from
\* the left, missing numbers being zero: it is antisymmetric, transitive
\* over the three versions, zero exactly for versions equal after padding
\* with zeros, and 0.10.0 is above 0.9.0.
C34_SemverIsNumericOrder ==
    fout # <<>> =>
        /\ (fout[1].ab >= 0) = AtLeast(Padded(fin[1]), Padded(fin[2]))
        /\ (fout[1].ab <= 0) = AtLeast(Padded(fin[2]), Padded(fin[1]))
        /\ fout[1].ab = -fout[1].ba
        /\ (fout[1].ab = 0) = (Padded(fin[1]) = Padded(fin[2]))
        /\ (fout[1].ab <= 0 /\ fout[1].bc <= 0) => fout[1].ac <= 0
        /\ (fout[1].ab <= 0 /\ fout[1].bc < 0) => fout[1].ac < 0
        /\ (fout[1].ab < 0 /\ fout[1].bc <= 0) => fout[1].ac < 0

\* 0.9, 0.9.0 and 0.10.0 were compared: the first two are equal and below
\* the third.
C34_ComparedTenWithNine ==
    /\ fin = << <<<<0>>, <<9>>>>, <<<<0>>, <<9>>, <<0>>>>, <<<<0>>, <<1, 0>>, <<0>>>> >>
    /\ fout # <<>>
    /\ fout[1].ab = 0
    /\ fout[1].bc < 0
    /\ fout[1].ac < 0

\* A skill name is the string of its characters, a character being its
\* code: "a" is <<1>>, "b" is <<2>>, "ab" is <<1, 2>>; "+" is below every
\* letter.
PlusSign == 0
NameA == <<1>>
NameB == <<2>>
NameAB == <<1, 2>>
SkillNames == {NameA, NameB, NameAB}

\* sorted(skills): every name goes before the first name that is above it.
RECURSIVE Insert(_, _)
Insert(name, sortedNames) ==
    IF sortedNames = <<>> THEN <<name>>
    ELSE IF StrCompare(name, Head(sortedNames)) <= 0 THEN <<name>> \o sortedNames
    ELSE <<Head(sortedNames)>> \o Insert(name, Tail(sortedNames))

RECURSIVE sorted(_)
sorted(names) ==
    IF names = <<>> THEN <<>> ELSE Insert(Head(names), sorted(Tail(names)))

\* "+".join(names)
RECURSIVE Join(_)
Join(names) ==
    IF names = <<>> THEN <<>>
    ELSE IF Len(names) = 1 THEN Head(names)
    ELSE Head(names) \o <<PlusSign>> \o Join(Tail(names))

\* _resolution_key joining the names in the order given.
resolution_key_unsorted(skills) == Join(skills)

\* resolution_cache.py:26-31 _resolution_key
resolution_key(skills) == Join(sorted(skills))

NoDir == [base_dir |-> "", key |-> <<>>]

\* resolution_cache.py:34-50 find_resolution_dir, shipped and project
\* being the keys of the directories under .claude/resolutions and
\* .g2/resolutions.
find_resolution_dir(skills, shipped, project) ==
    IF resolution_key(skills) \in shipped
       THEN [base_dir |-> ".claude/resolutions", key |-> resolution_key(skills)]
    ELSE IF resolution_key(skills) \in project
       THEN [base_dir |-> ".g2/resolutions", key |-> resolution_key(skills)]
    ELSE NoDir

\* Lists of one to three different names.
SkillLists ==
    {<<n>> : n \in SkillNames}
    \cup {l \in SkillNames \X SkillNames : l[1] # l[2]}
    \cup {l \in SkillNames \X SkillNames \X SkillNames :
             l[1] # l[2] /\ l[1] # l[3] /\ l[2] # l[3]}

\* The directories that may exist under either root: "a", "a+b", "b+ab"
\* and "a+ab+b".
ResolutionDirs ==
    {NameA, <<1, 0, 2>>, <<1, 2, 0, 2>>, <<1, 0, 1, 2, 0, 2>>}

NamesOf(l) == {l[i] : i \in DOMAIN l}

ResolveInit ==
    /\ FreshProject /\ LockAtRest /\ ConcAtRest /\ CacheAtRest /\ CoreAtRest /\ FileAtRest
    /\ StepAtRest /\ QueueAtRest
    /\ fin \in {f \in [skills : SkillLists, reordered : SkillLists,
                       shipped : SUBSET ResolutionDirs, project : SUBSET ResolutionDirs] :
                  NamesOf(f.skills) = NamesOf(f.reordered)}
    /\ fout = <<>>

\* find_resolution_dir called with a list of skills and with the same
\* skills in another order.
FindResolutionDir ==
    /\ fout = <<>>
    /\ fout' = <<find_resolution_dir(fin.skills, fin.shipped, fin.project),
                 find_resolution_dir(fin.reordered, fin.shipped, fin.project)>>
    /\ UNCHANGED fin
    /\ UNCHANGED <<lockVars, engineVars, concVars, cacheVars, coreVars, fileVars, stepVars, queueVars>>

SpecResolve == ResolveInit /\ [][FindResolutionDir]_vars

\* The names of a set from the lowest to the highest, joined by "+".
RECURSIVE KeyOfSet(_)
KeyOfSet(S) ==
    IF S = {} THEN <<>>
    ELSE LET low == CHOOSE n \in S : \A o \in S : StrCompare(n, o) <= 0
         IN IF S = {low} THEN low ELSE low \o <<PlusSign>> \o KeyOfSet(S \ {low})

ExecutedOps(s, fs) ==
    {i \in DOMAIN Manifest(s).file_ops :
        execute_file_ops(SubSeq(Manifest(s).file_ops, 1, i), fs).success}

\* The paths the file operation op names.
TouchedBy(op) == {op.from, op.to, op.path} \cap Paths

\* C36: when an apply that carried out one or more of the skill's file
\* operations fails and is rolled back, every path those operations touched
\* is as the apply found it: a renamed file is back at its source, nothing
\* is left at the destination, and a deleted file is there again.
C36_FileOpsUndoneOnFailure ==
    (/\ apc = "idle" /\ started # <<>>
     /\ last.op = "apply" /\ ~last.success /\ ~last.backup_pending)
    => \A i \in ExecutedOps(askill, pre.tree) :
          \A p \in TouchedBy(Manifest(askill).file_ops[i]) : tree[p] = pre.tree[p]

\* The apply renamed src/old.ts to src/new.ts and failed in a later block:
\* after the rollback src/old.ts is back and src/new.ts is still there.
C36_RenamedFileLeftAtDestination ==
    /\ apc = "idle" /\ started # <<>>
    /\ last.op = "apply" /\ ~last.success /\ ~last.backup_pending
    /\ Manifest(askill).file_ops # <<>>
    /\ 1 \in ExecutedOps(askill, pre.tree)
    /\ Manifest(askill).file_ops[1].type = "rename"
    /\ tree[OldTs] = pre.tree[OldTs]
    /\ ~Exists(pre.tree, NewTs)
    /\ Exists(tree, NewTs)

\* The apply deleted src/old.ts and its post_apply command failed: after
\* the rollback src/old.ts is still gone.
C36_DeletedFileNotRestored ==
    /\ apc = "idle" /\ started = <<"file_ops", "adds", "merge", "structured", "post_apply">>
    /\ last.op = "apply" /\ ~last.success
    /\ askill = "cleaner"
    /\ Exists(pre.tree, OldTs)
    /\ ~Exists(tree, OldTs)

(***************************************************************************)
(* PART 11 -- the group queue (g2/execution/execution_queue.py).  Every    *)
(* method of GroupQueue runs on the event loop without yielding, so each   *)
(* is one step; a coroutine given to asyncio.create_task begins only in a  *)
(* later step of the loop, the coroutines created first beginning first.   *)
(* shutdown() is not called.                                                *)
(***************************************************************************)

\* config.py:75 MAX_CONCURRENT_CONTAINERS, with MAX_CONCURRENT_CONTAINERS=2
\* in the environment.
MAX_CONCURRENT_CONTAINERS == 2

\* execution_queue.py:14
MAX_RETRIES == 5

Jids == {"g1", "g2", "g3", "g4"}
TaskIds == {"t1", "t2"}

\* The enqueue calls made from outside the queue, and the message runs
\* that fail.
MaxEnqueues == 4
MaxFailures == 1

\* execution_queue.py:25-33 GroupState()
GroupState ==
    [active |-> FALSE, pending_messages |-> FALSE, pending_tasks |-> <<>>, retry_count |-> 0]

\* The fields of the queue that its methods read and write.
Queue == [groups |-> groups, active_count |-> active_count,
          waiting_groups |-> waiting_groups, created |-> created]

\* asyncio.create_task(self._run_for_group(jid, ...)) and
\* asyncio.create_task(self._run_task(jid, task))
create_task(gq, kind, jid) ==
    [gq EXCEPT !.created = Append(@, [kind |-> kind, jid |-> jid])]

\* execution_queue.py:57-74 enqueue_message_check
enqueue_message_check(gq, jid) ==
    IF gq.groups[jid].active
       THEN [gq EXCEPT !.groups[jid].pending_messages = TRUE]
    ELSE IF gq.active_count >= MAX_CONCURRENT_CONTAINERS
       THEN [gq EXCEPT !.groups[jid].pending_messages = TRUE,
                       !.waiting_groups = @ \cup {jid}]
    ELSE create_task(gq, "messages", jid)

\* execution_queue.py:76-98 enqueue_task
enqueue_task(gq, jid, task_id) ==
    IF \E i \in DOMAIN gq.groups[jid].pending_tasks : gq.groups[jid].pending_tasks[i] = task_id
       THEN gq
    ELSE IF gq.groups[jid].active
       THEN [gq EXCEPT !.groups[jid].pending_tasks = Append(@, task_id)]
    ELSE IF gq.active_count >= MAX_CONCURRENT_CONTAINERS
       THEN [gq EXCEPT !.groups[jid].pending_tasks = Append(@, task_id),
                       !.waiting_groups = @ \cup {jid}]
    ELSE create_task(gq, "task", jid)

\* execution_queue.py:209-221 _drain_waiting, the waiting groups being
\* visited in the order given; _active_count does not change in the loop.
RECURSIVE drain_waiting(_, _)
drain_waiting(gq, order) ==
    IF order = <<>> \/ gq.active_count >= MAX_CONCURRENT_CONTAINERS THEN gq
    ELSE LET next_jid == Head(order)
             discarded == [gq EXCEPT !.waiting_groups = @ \ {next_jid}]
         IN IF gq.groups[next_jid].pending_tasks # <<>>
               THEN drain_waiting(
                       create_task([discarded EXCEPT !.groups[next_jid].pending_tasks = Tail(@)],
                                   "task", next_jid),
                       Tail(order))
            ELSE IF gq.groups[next_jid].pending_messages
               THEN drain_waiting(create_task(discarded, "messages", next_jid), Tail(order))
            ELSE drain_waiting(discarded, Tail(order))

\* execution_queue.py:191-207 _drain_group
drain_group(gq, jid, order) ==
    IF gq.groups[jid].pending_tasks # <<>>
       THEN create_task([gq EXCEPT !.groups[jid].pending_tasks = Tail(@)], "task", jid)
    ELSE IF gq.groups[jid].pending_messages
       THEN create_task(gq, "messages", jid)
    ELSE drain_waiting(gq, order)

\* The orders in which a loop over the set S can visit it.
Orders(S) ==
    {o \in UNION {[1..n -> S] : n \in {Cardinality(S)}} :
        \A i, j \in DOMAIN o : i # j => o[i] # o[j]}

QueueInit ==
    /\ FreshProject /\ LockAtRest /\ ConcAtRest /\ CacheAtRest /\ CoreAtRest /\ FileAtRest
    /\ StepAtRest /\ PureAtRest
    /\ groups = [jid \in Jids |-> GroupState]
    /\ active_count = 0
    /\ waiting_groups = {}
    /\ created = <<>>
    /\ running = [jid \in Jids |-> [messages |-> 0, task |-> 0]]
    /\ timers = [jid \in Jids |-> 0]
    /\ enqueued = 0
    /\ failures = 0
    /\ overlapped = FALSE

\* The queue's fields become those of gq.
QueueBecomes(gq) ==
    /\ groups' = gq.groups
    /\ active_count' = gq.active_count
    /\ waiting_groups' = gq.waiting_groups
    /\ created' = gq.created

OtherVars == <<lockVars, engineVars, concVars, cacheVars, coreVars, fileVars, stepVars, pureVars>>

\* A caller calls enqueue_message_check(jid).
EnqueueMessageCheck(jid) ==
    /\ enqueued < MaxEnqueues
    /\ enqueued' = enqueued + 1
    /\ overlapped' = (overlapped \/ created # <<>>)
    /\ QueueBecomes(enqueue_message_check(Queue, jid))
    /\ UNCHANGED <<running, timers, failures>>
    /\ UNCHANGED OtherVars

\* A caller calls enqueue_task(jid, task_id, fn).
EnqueueTask(jid, task_id) ==
    /\ enqueued < MaxEnqueues
    /\ enqueued' = enqueued + 1
    /\ overlapped' = (overlapped \/ created # <<>>)
    /\ QueueBecomes(enqueue_task(Queue, jid, task_id))
    /\ UNCHANGED <<running, timers, failures>>
    /\ UNCHANGED OtherVars

\* execution_queue.py:125-129 and 150-153: the oldest created coroutine
\* begins, up to its await.
BeginRun ==
    /\ created # <<>>
    /\ created' = Tail(created)
    /\ groups' = [groups EXCEPT ![Head(created).jid] =
                     IF Head(created).kind = "messages"
                        THEN [@ EXCEPT !.active = TRUE, !.pending_messages = FALSE]
                        ELSE [@ EXCEPT !.active = TRUE]]
    /\ active_count' = active_count + 1
    /\ running' = [running EXCEPT ![Head(created).jid][Head(created).kind] = @ + 1]
    /\ UNCHANGED <<waiting_groups, timers, enqueued, failures, overlapped>>
    /\ UNCHANGED OtherVars

\* execution_queue.py:170-189 _schedule_retry, on the group's state.
schedule_retry(st) ==
    IF st.retry_count + 1 > MAX_RETRIES THEN [st EXCEPT !.retry_count = 0]
    ELSE [st EXCEPT !.retry_count = @ + 1]

\* execution_queue.py:133-148 and 157-168: a run of the group returns from
\* its await: a message run with success or not (False or an exception),
\* then the finally block and _drain_group.
FinishRun(jid, kind, success) ==
    /\ running[jid][kind] > 0
    /\ success \/ failures < MaxFailures
    /\ failures' = IF success THEN failures ELSE failures + 1
    /\ LET retried == kind = "messages" /\ ~success
                      /\ groups[jid].retry_count + 1 <= MAX_RETRIES
           settled == IF kind = "task" THEN groups[jid]
                      ELSE IF success THEN [groups[jid] EXCEPT !.retry_count = 0]
                      ELSE schedule_retry(groups[jid])
           after == [Queue EXCEPT !.groups[jid] = [settled EXCEPT !.active = FALSE],
                                  !.active_count = @ - 1]
       IN /\ \E order \in Orders(waiting_groups) : QueueBecomes(drain_group(after, jid, order))
          /\ timers' = IF retried THEN [timers EXCEPT ![jid] = @ + 1] ELSE timers
    /\ running' = [running EXCEPT ![jid][kind] = @ - 1]
    /\ UNCHANGED <<enqueued, overlapped>>
    /\ UNCHANGED OtherVars

\* execution_queue.py:184-187 retry_later wakes up and calls
\* enqueue_message_check.
RetryLater(jid) ==
    /\ timers[jid] > 0
    /\ timers' = [timers EXCEPT ![jid] = @ - 1]
    /\ QueueBecomes(enqueue_message_check(Queue, jid))
    /\ UNCHANGED <<running, enqueued, failures, overlapped>>
    /\ UNCHANGED OtherVars

QueueNext ==
    \/ \E jid \in Jids : EnqueueMessageCheck(jid)
    \/ \E jid \in Jids, task_id \in TaskIds : EnqueueTask(jid, task_id)
    \/ BeginRun
    \/ \E jid \in Jids : \E success \in BOOLEAN : FinishRun(jid, "messages", success)
    \/ \E jid \in Jids : FinishRun(jid, "task", TRUE)
    \/ \E jid \in Jids : RetryLater(jid)

SpecQueue == QueueInit /\ [][QueueNext]_vars

\* The runs of a group, and all runs, that have begun and not finished.
RunsOf(jid) == running[jid].messages + running[jid].task

RECURSIVE SumRuns(_)
SumRuns(S) ==
    IF S = {} THEN 0
    ELSE LET jid == CHOOSE j \in S : TRUE IN RunsOf(jid) + SumRuns(S \ {jid})

RunsInProgress == SumRuns(Jids)

\* C37: whatever the order of enqueue_message_check and enqueue_task calls,
\* calls made before a created run has begun included, of run completions,
\* retries and drains, never more than MAX_CONCURRENT_CONTAINERS runs are
\* in progress.
C37_ConcurrencyLimitHolds == RunsInProgress <= MAX_CONCURRENT_CONTAINERS

\* Calls were made one after the other before the runs they created had
\* begun; no run failed; more runs than the limit are in progress.
C37_MoreRunsThanLimit ==
    /\ overlapped
    /\ enqueued = MAX_CONCURRENT_CONTAINERS + 1
    /\ failures = 0
    /\ created = <<>>
    /\ RunsInProgress > MAX_CONCURRENT_CONTAINERS
    /\ active_count > MAX_CONCURRENT_CONTAINERS

\* Every call was made with no created run waiting to begin and no run
\* failed: the drain of the waiting groups after one run finished started
\* more runs than the limit leaves room for.
C37_DrainStartedTooMany ==
    /\ ~overlapped
    /\ failures = 0
    /\ RunsInProgress > MAX_CONCURRENT_CONTAINERS

\* C38: at no moment is more than one run, of messages or of a task, in
\* progress for the same group.
C38_OneRunPerGroup == \A jid \in Jids : RunsOf(jid) <= 1

\* Two tasks of one group were enqueued one after the other: both run at
\* the same time, and nothing of the group is pending.
C38_TwoTasksOfOneGroupRunning ==
    \E jid \in Jids :
        /\ running[jid].task = 2
        /\ enqueued = 2
        /\ failures = 0
        /\ groups[jid].pending_tasks = <<>>
        /\ ~groups[jid].pending_messages

\* The operations called so far were applies and uninstalls that succeeded.
OnlyApplyAndUninstall ==
    \A i \in DOMAIN hist : hist[i].op \in {"apply", "uninstall"} /\ hist[i].success

\* C39: after applies and uninstalls, every skill that an applied skill's
\* manifest names in depends is applied too; an uninstall of a skill that
\* an applied skill depends on does not succeed.
C39_DependenciesStayApplied ==
    (OnlyApplyAndUninstall
     /\ \A s \in AppliedNames(start.ledger) :
           Manifest(s).depends \subseteq AppliedNames(start.ledger))
    =>  \A s \in AppliedNames(ledger) : Manifest(s).depends \subseteq AppliedNames(ledger)

\* telegram was uninstalled with success while voice, which depends on it,
\* stays applied.
C39_UninstalledDependency ==
    /\ OnlyApplyAndUninstall
    /\ last.op = "uninstall" /\ last.skill = "telegram" /\ last.success
    /\ "voice" \in AppliedNames(ledger)
    /\ "telegram" \in Manifest("voice").depends
    /\ "telegram" \notin AppliedNames(ledger)

\* C40: no two applied skills are in conflict: when the manifest of either
\* names the other in conflicts, the two are never both applied, whichever
\* was applied first.
C40_NoConflictingSkillsApplied ==
    \A s, t \in AppliedNames(ledger) : t \notin Manifest(s).conflicts

\* whatsapp, whose manifest names telegram in conflicts, was applied first;
\* the apply of telegram succeeded after it.
C40_AppliedAfterItsConflict ==
    /\ last.op = "apply" /\ last.skill = "telegram" /\ last.success
    /\ "whatsapp" \in AppliedNames(pre.ledger)
    /\ "telegram" \in Manifest("whatsapp").conflicts
    /\ {"whatsapp", "telegram"} \subseteq AppliedNames(ledger)

====
